---- MODULE Spec2Model ----
(***************************************************************************)
(* docker-map: container map configuration, instance grouping, dependency  *)
(* items, dependency resolution and state generation.                      *)
(*                                                                         *)
(* Data conventions                                                        *)
(*   - Python None is the string None == "None"; no name equals it.        *)
(*   - A dotted reference string "data.1" is the sequence of its segments  *)
(*     <<"data", "1">>; "data" is <<"data">>.                              *)
(*   - A dict is a sequence of <<key, value>> pairs in iteration order.    *)
(*   - An optional object is a set with at most one element.               *)
(*   - A generator's outcome is a record: the items it yielded before it   *)
(*     ended, and the exception that ended it ("none" for exhaustion).     *)
(***************************************************************************)
EXTENDS Integers, Sequences, FiniteSets, TLC

VARIABLES
    container_maps,   \* dict map name -> ContainerMap, the maps under test
    policy,           \* the BasePolicy built from container_maps, if any
    pc,               \* "idle" before the call under test, "done" after it
    call,             \* the call made: operation and arguments
    result            \* its outcome

vars == <<container_maps, policy, pc, call, result>>

None == "None"

(* ------------------------------ bounds --------------------------------- *)
MaxInstances == 2     \* most instance names a unit declares
MaxIds == 3           \* most addresses in one call of group/expand_instances

InstanceNames == {ToString(k) : k \in 1..MaxInstances}

Range(s) == {s[k] : k \in DOMAIN s}

SeqsUpTo(S, n) == UNION {[1..k -> S] : k \in 0..n}

RECURSIVE Flatten(_)
Flatten(ss) == IF ss = <<>> THEN <<>> ELSE Head(ss) \o Flatten(Tail(ss))

(* Lexicographic order of the names that are used as sort keys. *)
NameOrder == <<"app", "base", "data", "db", "ghost", "m", "n", "vol", "web">>

Rank(name) == CHOOSE k \in DOMAIN NameOrder : NameOrder[k] = name

(* ------------------------ configuration objects ------------------------ *)
(* ContainerConfiguration: the attributes the modelled code reads. *)
ContainerConfiguration(instances, uses, attaches, links, network, abstract) ==
    [instances |-> instances, uses |-> uses, attaches |-> attaches,
     links |-> links, network |-> network, abstract |-> abstract,
     extends |-> <<>>, clients |-> <<>>, persistent |-> FALSE, image |-> {},
     shares |-> <<>>, binds |-> <<>>]

(* network: a (unit, instance) tuple, or any non-tuple value (mode string). *)
NoNetwork == [is_tuple |-> FALSE, c |-> None, i |-> None]
UnitNetwork(c, i) == [is_tuple |-> TRUE, c |-> c, i |-> i]

ContainerMap(name, containers, use_attached_parent_name, extended) ==
    [name |-> name, containers |-> containers,
     use_attached_parent_name |-> use_attached_parent_name,
     extended |-> extended, clients |-> <<>>,
     groups |-> <<>>, host |-> {}, volumes |-> {}]

(* ContainerMap.__iter__: the non-abstract configurations, in dict order. *)
MapIter(c_map) == SelectSeq(c_map.containers, LAMBDA kv : ~kv[2].abstract)

(* ContainerMap.get_existing: the configuration, or nothing. *)
get_existing(c_map, item) ==
    {kv[2] : kv \in {x \in Range(c_map.containers) : x[1] = item}}

(* ContainerConfiguration.merge_from_obj: a scalar that the other
   configuration sets replaces the own one, lists are extended by the
   other's items; image is a scalar that may be unset ({}), abstract is
   taken from the other configuration. *)
merge_from_obj(self, obj) ==
    [self EXCEPT
        !.image = IF obj.image # {} THEN obj.image ELSE @,
        !.network = IF obj.network.is_tuple THEN obj.network ELSE @,
        !.persistent = @ \/ obj.persistent,
        !.abstract = obj.abstract,
        !.instances = @ \o obj.instances,
        !.uses = @ \o obj.uses,
        !.attaches = @ \o obj.attaches,
        !.links = @ \o obj.links,
        !.extends = @ \o obj.extends,
        !.shares = @ \o obj.shares, !.binds = @ \o obj.binds,
        !.clients = @ \o obj.clients]

(* ContainerConfiguration(): a configuration with nothing set. *)
NewConfiguration == ContainerConfiguration(<<>>, <<>>, <<>>, <<>>, NoNetwork, FALSE)

(* The call stack of the interpreter: a call nested deeper than this many
   frames of get_extended raises RecursionError. *)
RecursionLimit == 6

(* What get_extended returns or raises. *)
Resolved(config, exc, key) == [config |-> config, exc |-> exc, key |-> key]

RECURSIVE get_extended_at(_, _, _)
RECURSIVE ExtendLoop(_, _, _, _)
RECURSIVE ExtendLoop_RightToLeft(_, _, _, _)

(* Mutant of get_extended_at: the extended flag of the map is not looked
   at. *)
get_extended_at_IgnoresExtended(c_map, config, depth) ==
    IF depth > RecursionLimit THEN Resolved(config, "RecursionError", <<>>)
    ELSE IF config.extends = <<>> THEN Resolved(config, "none", <<>>)
    ELSE LET parents == ExtendLoop(c_map, config.extends,
                                   NewConfiguration, depth)
         IN IF parents.exc # "none" THEN parents
            ELSE Resolved(merge_from_obj(parents.config, config), "none", <<>>)

(* ContainerMap.get_extended, as the frame number depth of the recursion:
   the resolved parents are merged in listed order into a new
   configuration, the configuration itself last. *)
get_extended_at(c_map, config, depth) ==
    IF depth > RecursionLimit THEN Resolved(config, "RecursionError", <<>>)
    ELSE IF config.extends = <<>> \/ c_map.extended THEN Resolved(config, "none", <<>>)
    ELSE LET parents == ExtendLoop(c_map, config.extends,
                                   NewConfiguration, depth)
         IN IF parents.exc # "none" THEN parents
            ELSE Resolved(merge_from_obj(parents.config, config), "none", <<>>)

(* Mutant of ExtendLoop: the parents are merged from the last to the
   first. *)
ExtendLoop_RightToLeft(c_map, ext_names, extended_config, depth) ==
    IF ext_names = <<>> THEN Resolved(extended_config, "none", <<>>)
    ELSE LET ext_name == ext_names[Len(ext_names)]
             ext_cfg_base == get_existing(c_map, ext_name)
         IN IF ext_cfg_base = {} THEN Resolved(extended_config, "KeyError", <<ext_name>>)
            ELSE LET ext_cfg == get_extended_at(c_map, CHOOSE c \in ext_cfg_base : TRUE,
                                                depth + 1)
                 IN IF ext_cfg.exc # "none" THEN ext_cfg
                    ELSE ExtendLoop_RightToLeft(c_map, SubSeq(ext_names, 1, Len(ext_names) - 1),
                                             merge_from_obj(extended_config, ext_cfg.config),
                                             depth)

(* get_extended, lines 453-458: the loop over config.extends. *)
ExtendLoop(c_map, ext_names, extended_config, depth) ==
    IF ext_names = <<>> THEN Resolved(extended_config, "none", <<>>)
    ELSE LET ext_name == Head(ext_names)
             ext_cfg_base == get_existing(c_map, ext_name)
         IN IF ext_cfg_base = {} THEN Resolved(extended_config, "KeyError", <<ext_name>>)
            ELSE LET ext_cfg == get_extended_at(c_map, CHOOSE c \in ext_cfg_base : TRUE,
                                                depth + 1)
                 IN IF ext_cfg.exc # "none" THEN ext_cfg
                    ELSE ExtendLoop(c_map, Tail(ext_names),
                                    merge_from_obj(extended_config, ext_cfg.config), depth)

get_extended(c_map, config) == get_extended_at(c_map, config, 1)

(* The first error of get_extended over the configurations that
   get_extended_map iterates, or none. *)
get_extended_map_error(c_map) ==
    LET items == MapIter(c_map)
        failed == {k \in DOMAIN items : get_extended(c_map, items[k][2]).exc # "none"}
    IN IF failed = {} THEN Resolved(<<>>, "none", <<>>)
       ELSE get_extended(c_map, items[CHOOSE k \in failed : \A j \in failed : k <= j][2])

(* ContainerMap.get_extended_map: a copy holding the non-abstract
   configurations in extended form, flagged as extended. *)
get_extended_map(c_map) ==
    [c_map EXCEPT
        !.containers = [k \in DOMAIN MapIter(c_map) |->
                           <<MapIter(c_map)[k][1],
                             get_extended(c_map, MapIter(c_map)[k][2]).config>>],
        !.extended = TRUE]

(* Object identity.  A unit of the copy that get_extended_map makes is
   either the very object the source map holds under a name, or an object
   of its own. *)
SharedRef(name) == [shared |-> TRUE, name |-> name, config |-> <<>>]

OwnRef(config) == [shared |-> FALSE, name |-> None, config |-> config]

(* The object get_extended returns for a unit of the map: config itself
   without extends or on an extended map, otherwise the new
   ContainerConfiguration that the loop fills. *)
get_extended_ref(c_map, c_name, c_config) ==
    IF c_config.extends = <<>> \/ c_map.extended
    THEN SharedRef(c_name)
    ELSE OwnRef(get_extended(c_map, c_config).config)

(* map_copy._containers after the loop of get_extended_map. *)
get_extended_map_refs(c_map) ==
    [k \in DOMAIN MapIter(c_map) |->
        <<MapIter(c_map)[k][1],
          get_extended_ref(c_map, MapIter(c_map)[k][1], MapIter(c_map)[k][2])>>]

(* The configuration a reference leads to, given the source map. *)
Deref(c_map, ref) ==
    IF ref.shared
    THEN (CHOOSE kv \in Range(c_map.containers) : kv[1] = ref.name)[2]
    ELSE ref.config

(* ContainerConfiguration.update_from_dict: every attribute of the
   dictionary replaces the one of the configuration, in place. *)
ContainerConfiguration_update_from_dict(self, dct) ==
    [a \in DOMAIN self |-> IF a \in DOMAIN dct THEN dct[a] ELSE self[a]]

(* ContainerConfiguration.merge_from_dict: as merge_from_obj, lists are
   extended by the items of the dictionary and scalars replaced. *)
ContainerConfiguration_merge_from_dict(self, dct) ==
    [a \in DOMAIN self |->
        IF a \notin DOMAIN dct THEN self[a]
        ELSE IF a \in {"instances", "uses", "attaches", "links", "extends",
                       "shares", "binds", "clients"}
        THEN self[a] \o dct[a]
        ELSE dct[a]]

(* ContainerMap.update_default_from_dict and merge_default_from_dict for
   the name of a unit that the map holds: the unit is changed in place. *)
update_default_from_dict(self, key, value) ==
    [self EXCEPT !.containers =
        [k \in DOMAIN @ |->
            IF @[k][1] = key
            THEN <<key, ContainerConfiguration_update_from_dict(@[k][2], value)>>
            ELSE @[k]]]

merge_default_from_dict(self, key, value) ==
    [self EXCEPT !.containers =
        [k \in DOMAIN @ |->
            IF @[k][1] = key
            THEN <<key, ContainerConfiguration_merge_from_dict(@[k][2], value)>>
            ELSE @[k]]]

(* ------------------------- instance set algebra ------------------------ *)
get_map_config(di) == <<di[1], di[2]>>

KeyLess(a, b) ==
    \/ Rank(a[1]) < Rank(b[1])
    \/ a[1] = b[1] /\ Rank(a[2]) < Rank(b[2])

(* sorted(config_ids, key=get_map_config): a stable sort. *)
RECURSIVE sorted(_)
sorted(s) ==
    IF s = <<>> THEN <<>>
    ELSE LET x == Head(s)
             t == sorted(Tail(s))
             n == Cardinality({k \in DOMAIN t :
                                  KeyLess(get_map_config(t[k]), get_map_config(x))})
         IN SubSeq(t, 1, n) \o <<x>> \o SubSeq(t, n + 1, Len(t))

(* itertools.groupby(..., get_map_config): runs of consecutive equal keys. *)
RECURSIVE groupby(_)
groupby(s) ==
    IF s = <<>> THEN <<>>
    ELSE LET key == get_map_config(Head(s))
             n == CHOOSE j \in 1..Len(s) :
                     /\ \A i \in 1..j : get_map_config(s[i]) = key
                     /\ j = Len(s) \/ get_map_config(s[j + 1]) # key
         IN << <<key, SubSeq(s, 1, n)>> >> \o groupby(SubSeq(s, n + 1, Len(s)))

_get_single_instances(group_items) ==
    [k \in DOMAIN group_items |-> group_items[k][3]]

RECURSIVE FirstSeen(_, _)
FirstSeen(s, instance_set) ==
    IF s = <<>> THEN <<>>
    ELSE IF Head(s) \in instance_set THEN FirstSeen(Tail(s), instance_set)
    ELSE <<Head(s)>> \o FirstSeen(Tail(s), instance_set \cup {Head(s)})

(* di[2] or (None, ): an empty (falsy) instance tuple stands for (None, ). *)
_get_nested_instances(group_items) ==
    FirstSeen(Flatten([k \in DOMAIN group_items |->
                          IF group_items[k][3] = <<>> THEN <<None>>
                          ELSE group_items[k][3]]),
              {})

_get_instances(single_instances, items) ==
    IF single_instances THEN _get_single_instances(items)
    ELSE _get_nested_instances(items)

Outcome(yielded, exc, key) == [yielded |-> yielded, exc |-> exc, key |-> key]

(* Mutant of GroupYield: the wildcard among the given instances is not
   looked for, only the number of instances is compared. *)
GroupYield_CountOnly(map_name, config_name, instances, config) ==
    IF config.instances # <<>> /\ Len(instances) = Len(config.instances)
    THEN <<map_name, config_name, <<None>>>>
    ELSE <<map_name, config_name, instances>>

(* group_instances, lines 90-93: what is yielded for one (map, config). *)
GroupYield(map_name, config_name, instances, config) ==
    IF config.instances # <<>>
       /\ (None \in Range(instances) \/ Len(instances) = Len(config.instances))
    THEN <<map_name, config_name, <<None>>>>
    ELSE <<map_name, config_name, instances>>

(* Mutant of ExpandYield: the wildcard is expanded without asking whether
   the configuration declares instances. *)
ExpandYield_NoInstancesGuard(map_name, config_name, instances, config) ==
    IF None \in Range(instances)
    THEN [k \in DOMAIN config.instances |-> <<map_name, config_name, config.instances[k]>>]
    ELSE [k \in DOMAIN instances |-> <<map_name, config_name, instances[k]>>]

(* Mutant of ExpandYield: the wildcard is never replaced by the declared
   instances. *)
ExpandYield_Unexpanded(map_name, config_name, instances, config) ==
    [k \in DOMAIN instances |-> <<map_name, config_name, instances[k]>>]

(* expand_instances, lines 124-129: what is yielded for one (map, config). *)
ExpandYield(map_name, config_name, instances, config) ==
    IF config.instances # <<>> /\ None \in Range(instances)
    THEN [k \in DOMAIN config.instances |-> <<map_name, config_name, config.instances[k]>>]
    ELSE [k \in DOMAIN instances |-> <<map_name, config_name, instances[k]>>]

(* Mutant of InstanceLoop: a configuration that does not exist is passed
   over without an error. *)
RECURSIVE InstanceLoop_SkipsMissing(_, _, _, _, _, _)
InstanceLoop_SkipsMissing(groups, expand, single_instances, ext_map, ext_maps, acc) ==
    IF groups = <<>> THEN Outcome(acc, "none", <<>>)
    ELSE LET map_name == Head(groups)[1][1]
             config_name == Head(groups)[1][2]
             instances == _get_instances(single_instances, Head(groups)[2])
             c_map == IF ext_map # {} THEN CHOOSE m \in ext_map : TRUE
                      ELSE ext_maps[map_name]
             config == get_existing(c_map, config_name)
             out == IF config = {} THEN <<>>
                    ELSE IF expand
                    THEN ExpandYield(map_name, config_name, instances,
                                     CHOOSE c \in config : TRUE)
                    ELSE <<GroupYield(map_name, config_name, instances,
                                      CHOOSE c \in config : TRUE)>>
         IN InstanceLoop_SkipsMissing(Tail(groups), expand, single_instances,
                                      ext_map, ext_maps, acc \o out)

(* The loop of group_instances (expand = FALSE) and of expand_instances
   (expand = TRUE) over the groups; it ends at the first KeyError. *)
RECURSIVE InstanceLoop(_, _, _, _, _, _)
InstanceLoop(groups, expand, single_instances, ext_map, ext_maps, acc) ==
    IF groups = <<>> THEN Outcome(acc, "none", <<>>)
    ELSE LET map_name == Head(groups)[1][1]
             config_name == Head(groups)[1][2]
             instances == _get_instances(single_instances, Head(groups)[2])
         IN IF ext_map = {} /\ map_name \notin DOMAIN ext_maps
            THEN Outcome(acc, "KeyError", <<map_name>>)
            ELSE LET c_map == IF ext_map # {} THEN CHOOSE m \in ext_map : TRUE
                              ELSE ext_maps[map_name]
                     config == get_existing(c_map, config_name)
                 IN IF config = {}
                    THEN Outcome(acc, "KeyError", <<map_name, config_name>>)
                    ELSE LET cfg == CHOOSE c \in config : TRUE
                             out == IF expand
                                    THEN ExpandYield(map_name, config_name, instances, cfg)
                                    ELSE <<GroupYield(map_name, config_name, instances, cfg)>>
                         IN InstanceLoop(Tail(groups), expand, single_instances,
                                         ext_map, ext_maps, acc \o out)

group_instances(config_ids, single_instances, ext_map, ext_maps) ==
    IF ext_map = {} /\ DOMAIN ext_maps = {}
    THEN Outcome(<<>>, "ValueError", <<>>)
    ELSE InstanceLoop(groupby(sorted(config_ids)), FALSE, single_instances,
                      ext_map, ext_maps, <<>>)

expand_instances(config_ids, single_instances, ext_map, ext_maps) ==
    IF ext_map = {} /\ DOMAIN ext_maps = {}
    THEN Outcome(<<>>, "ValueError", <<>>)
    ELSE InstanceLoop(groupby(sorted(config_ids)), TRUE, single_instances,
                      ext_map, ext_maps, <<>>)

(* --------------------------- dependency items -------------------------- *)
(* str.partition('.') of a reference: the name before the first dot and the
   rest, which is the empty string when there is no dot. *)
partition(v) == [c |-> v[1], i |-> IF Len(v) > 1 THEN v[2] ELSE ""]

(* i or None *)
OrNone(i) == IF i = "" THEN None ELSE i

(* The dict attached = {alias: c_name} of dependency_items, as a lookup:
   the owner of the alias, or nothing.  A later unit replaces an earlier
   one that attaches the same alias. *)
attached_get(ext_map, alias) ==
    LET owners == {k \in DOMAIN MapIter(ext_map) :
                      alias \in Range(MapIter(ext_map)[k][2].attaches)}
    IN IF owners = {} THEN {}
       ELSE {MapIter(ext_map)[CHOOSE k \in owners : \A j \in owners : j <= k][1]}

_get_used_item_np(self, ext_map, u) ==
    LET p == partition(u.volume)
        a == attached_get(ext_map, p.c)
    IN IF a # {} THEN <<self.name, CHOOSE x \in a : TRUE, None>>
       ELSE <<self.name, p.c, OrNone(p.i)>>

(* Mutant of _get_used_item_ap: the suffix is taken as an instance name
   even when it is an alias the named unit attaches. *)
_get_used_item_ap_Literal(self, ext_map, u) ==
    LET p == partition(u.volume)
    IN <<self.name, p.c, OrNone(p.i)>>

(* Defined when the named configuration exists; else see UsedItemRaises. *)
_get_used_item_ap(self, ext_map, u) ==
    LET p == partition(u.volume)
        a == CHOOSE x \in get_existing(ext_map, p.c) : TRUE
    IN IF p.i \in Range(a.attaches) THEN <<self.name, p.c, None>>
       ELSE <<self.name, p.c, OrNone(p.i)>>

(* _get_used_item_ap, line 346: a is None for a name that is no
   configuration, and a.attaches raises AttributeError. *)
UsedItemRaises(self, ext_map, config) ==
    /\ self.use_attached_parent_name
    /\ \E k \in DOMAIN config.uses :
           get_existing(ext_map, partition(config.uses[k].volume).c) = {}

_get_linked_item(self, l) ==
    LET p == partition(l.container)
    IN IF p.i # "" THEN <<self.name, p.c, p.i>> ELSE <<self.name, p.c, None>>

_get_dep_set(self, ext_map, config) ==
    LET used_set == {IF self.use_attached_parent_name
                     THEN _get_used_item_ap(self, ext_map, config.uses[k])
                     ELSE _get_used_item_np(self, ext_map, config.uses[k])
                        : k \in DOMAIN config.uses}
        linked_set == {_get_linked_item(self, config.links[k]) : k \in DOMAIN config.links}
        d_set == used_set \cup linked_set
    IN IF config.network.is_tuple
       THEN d_set \cup {<<self.name, config.network.c, config.network.i>>}
       ELSE d_set

(* Iteration order of a set of (map, config, instance) tuples.  Python
   leaves it unspecified; the model iterates by name, then by instance. *)
InstanceOrder == <<None, "vol">> \o [k \in 1..(MaxInstances + 1) |-> ToString(k)]

InstanceRank(i) == CHOOSE k \in DOMAIN InstanceOrder : InstanceOrder[k] = i

AddrLeq(x, y) ==
    \/ KeyLess(get_map_config(x), get_map_config(y))
    \/ get_map_config(x) = get_map_config(y) /\ InstanceRank(x[3]) <= InstanceRank(y[3])

RECURSIVE SetIter(_)
SetIter(S) ==
    IF S = {} THEN <<>>
    ELSE LET x == CHOOSE x \in S : \A y \in S : AddrLeq(x, y)
         IN <<x>> \o SetIter(S \ {x})

(* Mutant of ReverseItem: the network reference is left out of the
   consolidated dependents. *)
ReverseItem_NoNetwork(self, ext_map, c_name, c_config) ==
    << <<self.name, c_name, <<None>>>>,
       {get_map_config(x) : x \in _get_dep_set(self, ext_map,
                                   [c_config EXCEPT !.network = NoNetwork])} >>

(* dependency_items, lines 380-382: the item yielded with reverse=True. *)
ReverseItem(self, ext_map, c_name, c_config) ==
    << <<self.name, c_name, <<None>>>>,
       {get_map_config(x) : x \in _get_dep_set(self, ext_map, c_config)} >>

(* The loop of dependency_items over ext_map; it ends at the first error.
   A KeyError names <<missing map, missing unit, map, referencing unit>>. *)
RECURSIVE DependencyLoop(_, _, _, _, _)
DependencyLoop(self, ext_map, items, reverse, acc) ==
    IF items = <<>> THEN Outcome(acc, "none", <<>>)
    ELSE LET c_name == Head(items)[1]
             c_config == Head(items)[2]
         IN IF UsedItemRaises(self, ext_map, c_config)
            THEN Outcome(acc, "AttributeError", <<>>)
            ELSE IF reverse
            THEN DependencyLoop(self, ext_map, Tail(items), reverse,
                                Append(acc, ReverseItem(self, ext_map, c_name, c_config)))
            ELSE LET dep_set == _get_dep_set(self, ext_map, c_config)
                     grouped == group_instances(SetIter(dep_set), TRUE, {ext_map}, <<>>)
                 IN IF grouped.exc = "KeyError"
                    THEN Outcome(acc, "KeyError",
                                 <<grouped.key[1], grouped.key[2], self.name, c_name>>)
                    ELSE DependencyLoop(self, ext_map, Tail(items), reverse,
                                        Append(acc, << <<self.name, c_name>>,
                                                       Range(grouped.yielded) >>))

dependency_items(self, reverse) ==
    LET ext_map == IF self.extended THEN self ELSE get_extended_map(self)
    IN DependencyLoop(self, ext_map, MapIter(ext_map), reverse, <<>>)

(* ------------------------ dependency resolver -------------------------- *)
(* ContainerDependencyResolver keeps an adjacency table: a function from
   (map, config) keys to sets of items. *)
RECURSIVE update(_, _)
update(adj, items) ==
    IF items = <<>> THEN adj
    ELSE LET key == Head(items)[1]
             deps == Head(items)[2]
         IN update([k \in DOMAIN adj \cup {key} |-> IF k = key THEN deps ELSE adj[k]],
                   Tail(items))

RECURSIVE update_backward(_, _)
update_backward(adj, items) ==
    IF items = <<>> THEN adj
    ELSE LET item == Head(items)[1]
             deps == Head(items)[2]
         IN update_backward(
                [k \in DOMAIN adj \cup deps |->
                    (IF k \in DOMAIN adj THEN adj[k] ELSE {})
                        \cup (IF k \in deps THEN {item} ELSE {})],
                Tail(items))

(* The names of a dict of maps, in iteration order. *)
RECURSIVE MapNames(_)
MapNames(names) ==
    IF names = {} THEN <<>>
    ELSE LET n == CHOOSE n \in names : \A o \in names : Rank(n) <= Rank(o)
         IN <<n>> \o MapNames(names \ {n})

(* The two loops of BasePolicy.__init__ over self._maps.values(); the first
   error of a dependency_items call ends the construction. *)
RECURSIVE ResolverLoop(_, _, _, _)
ResolverLoop(maps, names, reverse, adj) ==
    IF names = <<>> THEN [adj |-> adj, exc |-> "none", key |-> <<>>]
    ELSE LET items == dependency_items(maps[Head(names)], reverse)
         IN IF items.exc # "none"
            THEN [adj |-> adj, exc |-> items.exc, key |-> items.key]
            ELSE ResolverLoop(maps, Tail(names), reverse,
                              IF reverse THEN update_backward(adj, items.yielded)
                              ELSE update(adj, items.yielded))

BasePolicy__init__(maps_arg, clients) ==
    LET _maps == [n \in DOMAIN maps_arg |-> get_extended_map(maps_arg[n])]
        f == ResolverLoop(_maps, MapNames(DOMAIN _maps), FALSE, <<>>)
        r == ResolverLoop(_maps, MapNames(DOMAIN _maps), TRUE, <<>>)
    IN IF f.exc # "none" THEN [built |-> FALSE, exc |-> f.exc, key |-> f.key]
       ELSE IF r.exc # "none" THEN [built |-> FALSE, exc |-> r.exc, key |-> r.key]
       ELSE [built |-> TRUE, exc |-> "none", _maps |-> _maps, _clients |-> clients,
             _f_resolver |-> f.adj, _r_resolver |-> r.adj]

(* BasePolicy.get_default_client_name *)
get_default_client_name == "__default__"

(* ContainerDependencyResolver.get_container_dependencies: the transitive
   closure of the item's entries, every unit once, an item always before
   the items reachable from it; entries on the current path are skipped. *)
Adjacent(adj, key) == IF key \in DOMAIN adj THEN adj[key] ELSE {}

RECURSIVE ItemIter(_)
ItemIter(S) ==
    IF S = {} THEN <<>>
    ELSE LET x == CHOOSE x \in S : \A y \in S :
                      x = y \/ get_map_config(x) = get_map_config(y)
                            \/ KeyLess(get_map_config(x), get_map_config(y))
         IN <<x>> \o ItemIter(S \ {x})

Reversed(s) == [k \in DOMAIN s |-> s[Len(s) + 1 - k]]

RECURSIVE Traverse(_, _, _, _)
Traverse(adj, items, path, acc) ==
    IF items = <<>> THEN acc
    ELSE LET key == get_map_config(Head(items))
         IN IF key \in path \/ key \in {get_map_config(x) : x \in Range(acc)}
            THEN Traverse(adj, Tail(items), path, acc)
            ELSE Traverse(adj, Tail(items), path,
                          Append(Traverse(adj, ItemIter(Adjacent(adj, key)),
                                          path \cup {key}, acc),
                                 Head(items)))

get_container_dependencies(adj, map_name, container) ==
    Reversed(Traverse(adj, ItemIter(Adjacent(adj, <<map_name, container>>)),
                      {<<map_name, container>>}, <<>>))

(* Mutant of get_dependencies: the resolver's list is returned as it is. *)
get_dependencies_AsResolved(self, args) ==
    IF Len(args) # 2 THEN Outcome(<<>>, "TypeError", <<>>)
    ELSE Outcome(get_container_dependencies(self._f_resolver, args[1], args[2]),
                 "none", <<>>)

(* BasePolicy.get_dependencies(self, map_name, container), called with the
   positional arguments args: any other number of them is a TypeError. *)
get_dependencies(self, args) ==
    IF Len(args) # 2 THEN Outcome(<<>>, "TypeError", <<>>)
    ELSE Outcome(Reversed(get_container_dependencies(self._f_resolver, args[1], args[2])),
                 "none", <<>>)

(* BasePolicy.get_dependents(self, map_name, container) *)
get_dependents(self, args) ==
    IF Len(args) # 2 THEN Outcome(<<>>, "TypeError", <<>>)
    ELSE Outcome(Reversed(get_container_dependencies(self._r_resolver, args[1], args[2])),
                 "none", <<>>)

(* BasePolicy.get_clients(self, c_config, c_map), called with the positional
   arguments args; a client is the tuple (name, client object, config). *)
_get_client(self, client_name) == <<client_name, "client", client_name>>

get_clients(self, args) ==
    IF Len(args) # 2 THEN Outcome(<<>>, "TypeError", <<>>)
    ELSE LET c_config == args[1]
             c_map == args[2]
             names == IF c_config.clients # <<>> THEN c_config.clients
                      ELSE IF c_map.clients # <<>> THEN c_map.clients
                      ELSE <<get_default_client_name>>
         IN IF \E k \in DOMAIN names : names[k] \notin self._clients
            THEN Outcome(<<>>, "KeyError",
                         <<names[CHOOSE k \in DOMAIN names :
                                    /\ names[k] \notin self._clients
                                    /\ \A j \in 1..(k - 1) : names[j] \in self._clients]>>)
            ELSE Outcome([k \in DOMAIN names |-> _get_client(self, names[k])], "none", <<>>)

(* ----------------------------- state generators ------------------------ *)
ITEM_TYPE_CONTAINER == "container"
ITEM_TYPE_VOLUME == "volume"
ITEM_TYPE_NETWORK == "network"

(* The fields of ConfigState that identify a report. *)
ConfigState(client_name, map_name, config_type, config_name, instance_name, flags) ==
    [client_name |-> client_name, map_name |-> map_name, config_type |-> config_type,
     config_name |-> config_name, instance_name |-> instance_name, flags |-> flags]

(* merge_dependency_paths: the (item, path) pairs of the batch in order,
   each path without what an earlier pair already covers; an item that an
   earlier path covers is dropped. *)
RECURSIVE merge_dependency_paths(_, _, _)
merge_dependency_paths(item_paths, covered, acc) ==
    IF item_paths = <<>> THEN acc
    ELSE LET item == Head(item_paths)[1]
             path == Head(item_paths)[2]
             rest == SelectSeq(path, LAMBDA x : x \notin covered)
         IN IF item \in covered
            THEN merge_dependency_paths(Tail(item_paths), covered, acc)
            ELSE merge_dependency_paths(Tail(item_paths),
                                        covered \cup Range(path) \cup {item},
                                        Append(acc, <<item, rest>>))

(* AbstractStateGenerator.generate_config_states, called with the positional
   arguments args after self (and is_dependency by keyword). *)
generate_config_states(self, args, is_dependency) ==
    IF Len(args) # 4 THEN Outcome(<<>>, "TypeError", <<>>)
    ELSE LET config_type == args[1]
             map_name == args[2]
             config_name == args[3]
             instance_name == args[4]
             c_flags == IF is_dependency THEN {"DEPENDENT"} ELSE {}
         IN IF map_name \notin DOMAIN self._maps
            THEN Outcome(<<>>, "KeyError", <<map_name>>)
            ELSE IF config_type \in {ITEM_TYPE_CONTAINER, ITEM_TYPE_VOLUME}
            THEN LET c_map == self._maps[map_name]
                     config == get_existing(c_map, config_name)
                 IN IF config = {}
                    THEN Outcome(<<>>, "KeyError", <<config_name, map_name>>)
                    ELSE LET c == CHOOSE x \in config : TRUE
                             clients == get_clients(self, <<c_map, c>>)
                             flags == c_flags
                                 \cup (IF config_type = ITEM_TYPE_CONTAINER /\ c.persistent
                                       THEN {"PERSISTENT"} ELSE {})
                                 \cup (IF config_type = ITEM_TYPE_VOLUME
                                       THEN {"ATTACHED"} ELSE {})
                         IN IF clients.exc # "none"
                            THEN Outcome(<<>>, clients.exc, clients.key)
                            ELSE IF \E k \in DOMAIN clients.yielded :
                                        Len(clients.yielded[k]) # 2
                            THEN Outcome(<<>>, "ValueError", <<>>)
                            ELSE Outcome([k \in DOMAIN clients.yielded |->
                                             ConfigState(clients.yielded[k][1], map_name,
                                                         config_type, config_name,
                                                         instance_name, flags)],
                                         "none", <<>>)
            ELSE IF config_type = ITEM_TYPE_NETWORK
            THEN \* the maps of the model configure no networks:
                 \* get_existing_network finds nothing
                 Outcome(<<>>, "KeyError", <<config_name, map_name>>)
            ELSE Outcome(<<>>, "ValueError", <<config_type>>)

(* itertools.chain.from_iterable over generators: the reports up to the
   first error. *)
RECURSIVE Chain(_, _)
Chain(outcomes, acc) ==
    IF outcomes = <<>> THEN Outcome(acc, "none", <<>>)
    ELSE IF Head(outcomes).exc # "none"
    THEN Outcome(acc \o Head(outcomes).yielded, Head(outcomes).exc, Head(outcomes).key)
    ELSE Chain(Tail(outcomes), acc \o Head(outcomes).yielded)

(* SingleStateGenerator.get_states *)
SingleStateGenerator_get_states(self, config_ids) ==
    Chain([k \in DOMAIN config_ids |-> generate_config_states(self, config_ids[k], FALSE)],
          <<>>)

(* DependencyStateGenerator / DependentStateGenerator .get_dependency_path:
   the policy method is called with config_id as its one argument. *)
get_dependency_path(self, forward, config_id) ==
    IF forward THEN get_dependencies(self, <<config_id>>)
    ELSE get_dependents(self, <<config_id>>)

(* AbstractDependencyStateGenerator._get_all_states *)
_get_all_states(self, config_id, dependency_path) ==
    Chain([k \in DOMAIN dependency_path |->
              \* for d_type, d_map_name, d_config_name, d_instance in dependency_path
              IF Len(dependency_path[k]) # 4 THEN Outcome(<<>>, "ValueError", <<>>)
              ELSE generate_config_states(self, dependency_path[k], TRUE)]
          \o <<generate_config_states(self, config_id, FALSE)>>, <<>>)

(* AbstractDependencyStateGenerator.get_states: the paths of the whole batch
   are merged before the first report is produced. *)
get_states(self, forward, config_ids) ==
    LET paths == [k \in DOMAIN config_ids |-> get_dependency_path(self, forward, config_ids[k])]
    IN IF \E k \in DOMAIN paths : paths[k].exc # "none"
       THEN LET first == CHOOSE k \in DOMAIN paths :
                             /\ paths[k].exc # "none"
                             /\ \A j \in 1..(k - 1) : paths[j].exc = "none"
            IN Outcome(<<>>, paths[first].exc, paths[first].key)
       ELSE LET dependency_paths ==
                    merge_dependency_paths(
                        [k \in DOMAIN config_ids |-> <<config_ids[k], paths[k].yielded>>],
                        {}, <<>>)
            IN Chain([k \in DOMAIN dependency_paths |->
                         _get_all_states(self, dependency_paths[k][1], dependency_paths[k][2])],
                     <<>>)

(* --------------------------- integrity check --------------------------- *)
(* Names are strings with dots, kept as the sequence of their parts:
   '{0}.{1}'.format(c_name, instance) is <<c_name, instance>>.  groups is
   the dict of the map as a sequence of <<name, members>>, host and volumes
   are the key sets of the two alias tables.  A host bind refers to an
   alias, or is a tuple of paths. *)
HostBind(volume, is_tuple) == [volume |-> volume, is_tuple |-> is_tuple]

_get_instance_names(c_name, instances) ==
    IF instances # <<>> THEN [k \in DOMAIN instances |-> <<c_name, instances[k]>>]
    ELSE << <<c_name>> >>

_get_container_items(self, c_name, c_config) ==
    LET instance_names == _get_instance_names(c_name, c_config.instances)
        bind == SelectSeq(c_config.binds, LAMBDA b : ~b.is_tuple)
    IN [instance_names |-> instance_names,
        group_ref_names |-> IF c_config.instances # <<>>
                            THEN Append(instance_names, <<c_name>>)
                            ELSE instance_names,
        uses |-> [k \in DOMAIN c_config.uses |-> c_config.uses[k].volume],
        attaches |-> IF self.use_attached_parent_name
                     THEN [k \in DOMAIN c_config.attaches |->
                              <<c_name, c_config.attaches[k]>>]
                     ELSE c_config.attaches,
        shared |-> IF c_config.shares # <<>> \/ c_config.binds # <<>>
                      \/ c_config.uses # <<>>
                   THEN instance_names ELSE <<>>,
        bind |-> [k \in DOMAIN bind |-> bind[k].volume],
        link |-> [k \in DOMAIN c_config.links |-> c_config.links[k].container],
        network |-> IF c_config.network.is_tuple
                    THEN IF c_config.network.i \notin {None, ""}
                         THEN {<<c_config.network.c, c_config.network.i>>}
                         ELSE {<<c_config.network.c>>}
                    ELSE {}]

(* itertools.chain.from_iterable over one column of the zipped items. *)
AllOf(items, column) == Flatten([k \in DOMAIN items |-> items[k][column]])

all_attached_names(self, items) ==
    LET all_attached == AllOf(items, "attaches")
    IN IF self.use_attached_parent_name THEN all_attached
       ELSE [k \in DOMAIN all_attached |-> <<all_attached[k]>>]

ambiguous_names(self, items) ==
    {self.groups[k][1] : k \in DOMAIN self.groups} \cap Range(AllOf(items, "group_ref_names"))

missing_refs(self, items) ==
    UNION {Range(self.groups[k][2]) : k \in DOMAIN self.groups}
        \ Range(AllOf(items, "group_ref_names"))

volume_shared(self, items) == AllOf(items, "shared") \o all_attached_names(self, items)

(* Mutant of duplicated: an alias counts as duplicated when two units
   attach it, whatever the names of the attached volumes are. *)
duplicated_ByAlias(self, items) ==
    {name \in Range(volume_shared(self, items)) :
        Cardinality({k \in DOMAIN volume_shared(self, items) :
                        volume_shared(self, items)[k][Len(volume_shared(self, items)[k])]
                            = name[Len(name)]}) > 1}

(* The names that collections.Counter counts more than once. *)
duplicated(self, items) ==
    {name \in Range(volume_shared(self, items)) :
        Cardinality({k \in DOMAIN volume_shared(self, items) :
                        volume_shared(self, items)[k] = name}) > 1}

(* Mutant of missing_shares: only attached volumes can be used. *)
missing_shares_AttachedOnly(self, items) ==
    Range(AllOf(items, "uses")) \ Range(all_attached_names(self, items))

missing_shares(self, items) ==
    Range(AllOf(items, "uses")) \ Range(volume_shared(self, items))

missing_binds(self, items) ==
    Range(AllOf(items, "bind")) \ {<<alias>> : alias \in self.host}

missing_names(self, items) ==
    LET all_attached == AllOf(items, "attaches")
        volume_set ==
            Range(AllOf(items, "bind")) \cup
            (IF self.use_attached_parent_name
             THEN {<<all_attached[k][2]>> : k \in DOMAIN all_attached}
             ELSE Range(all_attached_names(self, items)))
    IN volume_set \ {<<alias>> : alias \in self.volumes}

(* Mutant of missing_links: the network references are checked together
   with the link targets. *)
missing_links_WithNetworks(self, items) ==
    (Range(AllOf(items, "link")) \cup UNION {items[k].network : k \in DOMAIN items})
        \ Range(AllOf(items, "instance_names"))

missing_links(self, items) ==
    Range(AllOf(items, "link")) \ Range(AllOf(items, "instance_names"))

(* Mutant of missing_networks: the network references are not checked. *)
missing_networks_Unchecked(self, items) == {}

missing_networks(self, items) ==
    UNION {items[k].network : k \in DOMAIN items} \ Range(AllOf(items, "instance_names"))

(* What a call of check_integrity ends in: nothing raised, or an
   exception; for a MapIntegrityError its text and the names joined into
   it (a set: the order of ', '.join over a set is that of the hashes). *)
Raised(exc, text, names) == [exc |-> exc, text |-> text, names |-> names]

MapIntegrityError(text, names) == Raised("MapIntegrityError", text, names)

check_integrity(self, check_duplicates) ==
    LET error == get_extended_map_error(self)
        extended == MapIter(get_extended_map(self))
        items == [k \in DOMAIN extended |->
                     _get_container_items(self, extended[k][1], extended[k][2])]
    IN IF error.exc # "none" THEN Raised(error.exc, "", {error.key})
       ELSE IF items = <<>> THEN Raised("ValueError", "", {})
       ELSE IF ambiguous_names(self, items) # {}
       THEN MapIntegrityError("Names are used both for container configurations (or instances) and for container groups",
                              ambiguous_names(self, items))
       ELSE IF missing_refs(self, items) # {}
       THEN MapIntegrityError("Container configurations or certain instances are referenced by groups, but are not defined",
                              missing_refs(self, items))
       ELSE IF check_duplicates /\ duplicated(self, items) # {}
       THEN MapIntegrityError("Duplicated attached volumes found with name(s)",
                              duplicated(self, items))
       ELSE IF missing_shares(self, items) # {}
       THEN MapIntegrityError("No shared or attached volumes found for used volume(s)",
                              missing_shares(self, items))
       ELSE IF missing_binds(self, items) # {}
       THEN MapIntegrityError("No host share found for mapped volume(s)",
                              missing_binds(self, items))
       ELSE IF missing_names(self, items) # {}
       THEN MapIntegrityError("No volume name-path-assignments found for volume(s)",
                              missing_names(self, items))
       ELSE IF missing_links(self, items) # {}
       THEN MapIntegrityError("No container instance found for link(s)",
                              missing_links(self, items))
       ELSE IF missing_networks(self, items) # {}
       THEN MapIntegrityError("No container instance found for the following network reference(s)",
                              missing_networks(self, items))
       ELSE Raised("none", "", {})

(* --------------------------- container state --------------------------- *)
(* The names imported from dockermap.map.state, kept as names; the state
   flags are bits of an integer in the code and the members of a set here. *)
NOT_FOUND == [not_found |-> TRUE]
INITIAL_START_TIME == "INITIAL_START_TIME"
STATE_ABSENT == "STATE_ABSENT"
STATE_PRESENT == "STATE_PRESENT"
STATE_RUNNING == "STATE_RUNNING"
STATE_FLAG_INITIAL == "STATE_FLAG_INITIAL"
STATE_FLAG_RESTARTING == "STATE_FLAG_RESTARTING"
STATE_FLAG_NONRECOVERABLE == "STATE_FLAG_NONRECOVERABLE"
STATE_FLAG_OUTDATED == "STATE_FLAG_OUTDATED"

(* AbstractStateGenerator.nonrecoverable_exit_codes, the default option *)
nonrecoverable_exit_codes == {-127, -1}

(* What client.inspect_container returns, as far as get_state reads it. *)
ContainerDetail(Running, StartedAt, ExitCode, Restarting) ==
    [State |-> [Running |-> Running, StartedAt |-> StartedAt,
                ExitCode |-> ExitCode, Restarting |-> Restarting]]

(* A ContainerBaseState after inspect: the fields get_state reads.
   force_update is a set of addresses, empty for None. *)
ContainerBaseState(options, map_name, config_name, instance_name, detail) ==
    [options |-> options, map_name |-> map_name, config_name |-> config_name,
     instance_name |-> instance_name, detail |-> detail]

(* `state_flag |= STATE_FLAG_OUTDATED` of get_state *)
WithForceUpdate(self, state_flag) ==
    IF <<ITEM_TYPE_CONTAINER, self.map_name, self.config_name, self.instance_name>>
           \in self.options.force_update
    THEN state_flag \cup {STATE_FLAG_OUTDATED}
    ELSE state_flag

(* Mutant of ContainerBaseState_get_state: the exit code is looked at
   whatever the start time is. *)
ContainerBaseState_get_state_ExitCodeAlways(self) ==
    IF self.detail = NOT_FOUND THEN <<STATE_ABSENT, {}, <<>>>>
    ELSE IF self.detail.State.Running
    THEN <<STATE_RUNNING, WithForceUpdate(self, {}), <<>>>>
    ELSE <<STATE_PRESENT,
           WithForceUpdate(self,
               (IF self.detail.State.StartedAt = INITIAL_START_TIME
                THEN {STATE_FLAG_INITIAL} ELSE {})
               \cup (IF self.detail.State.ExitCode \in self.options.nonrecoverable_exit_codes
                     THEN {STATE_FLAG_NONRECOVERABLE} ELSE {})
               \cup (IF self.detail.State.Restarting THEN {STATE_FLAG_RESTARTING} ELSE {})),
           <<>>>>

(* Mutant of ContainerBaseState_get_state: the flags of the stopped
   container are set for the running one as well. *)
ContainerBaseState_get_state_FlagsWhileRunning(self) ==
    IF self.detail = NOT_FOUND THEN <<STATE_ABSENT, {}, <<>>>>
    ELSE <<IF self.detail.State.Running THEN STATE_RUNNING ELSE STATE_PRESENT,
           WithForceUpdate(self,
               (IF self.detail.State.StartedAt = INITIAL_START_TIME
                THEN {STATE_FLAG_INITIAL}
                ELSE IF self.detail.State.ExitCode \in self.options.nonrecoverable_exit_codes
                THEN {STATE_FLAG_NONRECOVERABLE}
                ELSE {})
               \cup (IF self.detail.State.Restarting THEN {STATE_FLAG_RESTARTING} ELSE {})),
           <<>>>>

(* ContainerBaseState.get_state: base state, state flags, extra data. *)
ContainerBaseState_get_state(self) ==
    IF self.detail = NOT_FOUND THEN <<STATE_ABSENT, {}, <<>>>>
    ELSE IF self.detail.State.Running
    THEN <<STATE_RUNNING, WithForceUpdate(self, {}), <<>>>>
    ELSE <<STATE_PRESENT,
           WithForceUpdate(self,
               (IF self.detail.State.StartedAt = INITIAL_START_TIME
                THEN {STATE_FLAG_INITIAL}
                ELSE IF self.detail.State.ExitCode \in self.options.nonrecoverable_exit_codes
                THEN {STATE_FLAG_NONRECOVERABLE}
                ELSE {})
               \cup (IF self.detail.State.Restarting THEN {STATE_FLAG_RESTARTING} ELSE {})),
           <<>>>>

(* BasePolicy.cname and BasePolicy.aname: the names are strings with
   dots, kept as the sequence of their parts. *)
cname(map_name, container, instance) ==
    IF instance \notin {None, ""} THEN <<map_name, container, instance>>
    ELSE <<map_name, container>>

aname(map_name, attached_name, parent_name) ==
    IF parent_name \notin {None, ""} THEN <<map_name, parent_name, attached_name>>
    ELSE <<map_name, attached_name>>

(* What inspect leaves behind: the state object, the exception it raised
   and its calls of the client. *)
InspectedState(self, exc, calls) == [self |-> self, exc |-> exc, calls |-> calls]

(* ContainerBaseState.inspect; self carries config_flags, client_name and
   use_attached_parent_name of its map besides the fields of get_state,
   policy.container_names is the set of known names for every client,
   and client is the answer inspect_container would give. *)
ContainerBaseState_inspect(self, policy_container_names, client) ==
    LET container_name ==
            IF "ATTACHED" \in self.config_flags
            THEN IF self.use_attached_parent_name
                 THEN aname(self.map_name, self.instance_name, self.config_name)
                 ELSE aname(self.map_name, self.instance_name, None)
            ELSE cname(self.map_name, self.config_name, self.instance_name)
    IN IF container_name \in policy_container_names[self.client_name]
       THEN InspectedState([self EXCEPT !.container_name = container_name,
                                        !.detail = client.inspect_container],
                           "none", <<<<"inspect_container", container_name>>>>)
       ELSE InspectedState([self EXCEPT !.container_name = container_name,
                                        !.detail = NOT_FOUND],
                           "none", <<>>)

(* NetworkBaseState.inspect: self.policy.nname is looked up first, and
   BasePolicy defines neither nname nor network_names. *)
NetworkBaseState_inspect(self) == InspectedState(self, "AttributeError", <<>>)

(* A NetworkBaseState after inspect: the fields get_state reads. *)
NetworkBaseState(options, map_name, config_name, detail) ==
    [options |-> options, map_name |-> map_name, config_name |-> config_name,
     detail |-> detail]

(* Mutant of NetworkBaseState_get_state: a forced update marks an absent
   network as well. *)
NetworkBaseState_get_state_OutdatedFirst(self) ==
    LET state_flag ==
            IF <<ITEM_TYPE_NETWORK, self.map_name, self.config_name, None>>
                   \in self.options.force_update
            THEN {STATE_FLAG_OUTDATED} ELSE {}
    IN IF self.detail = NOT_FOUND THEN <<STATE_ABSENT, state_flag, <<>>>>
       ELSE <<STATE_PRESENT, state_flag, <<>>>>

(* NetworkBaseState.get_state *)
NetworkBaseState_get_state(self) ==
    IF self.detail = NOT_FOUND THEN <<STATE_ABSENT, {}, <<>>>>
    ELSE IF <<ITEM_TYPE_NETWORK, self.map_name, self.config_name, None>>
                \in self.options.force_update
    THEN <<STATE_PRESENT, {STATE_FLAG_OUTDATED}, <<>>>>
    ELSE <<STATE_PRESENT, {}, <<>>>>

(* --------------------------- keyword arguments ------------------------- *)
(* A value of the interpreter with its type; v is the sequence of its
   items (characters, elements, or key-value pairs of a dictionary). *)
PyValue(kind, v) == [kind |-> kind, v |-> v]

PyNone == PyValue("NoneType", <<>>)

(* bool(x) *)
Truth(x) ==
    CASE x.kind = "NoneType" -> FALSE
      [] x.kind = "int" -> x.v # <<"0">>
      [] x.kind = "bool" -> x.v = <<"True">>
      [] OTHER -> x.v # <<>>

(* dict.get(key), None without the key; a dictionary is the sequence of
   its key-value pairs. *)
DictGet(dct, key) ==
    IF \E k \in DOMAIN dct : dct[k][1] = key
    THEN (CHOOSE kv \in Range(dct) : kv[1] = key)[2]
    ELSE PyNone

(* dct[key] = value *)
DictSet(dct, key, value) ==
    IF \E k \in DOMAIN dct : dct[k][1] = key
    THEN [k \in DOMAIN dct |-> IF dct[k][1] = key THEN <<key, value>> ELSE dct[k]]
    ELSE Append(dct, <<key, value>>)

(* dct.update(other) *)
RECURSIVE DictUpdate(_, _)
DictUpdate(dct, other) ==
    IF other = <<>> THEN dct
    ELSE DictUpdate(DictSet(dct, other[1][1], other[1][2]), Tail(other))

(* What update_kwargs leaves: kwargs, changed in place, and the exception
   it raised. *)
Merged(kwargs, exc) == [kwargs |-> kwargs, exc |-> exc]

(* The body of the inner loop of update_kwargs for one item of an update.
   extend is a method of lists only and update one of dictionaries only. *)
update_item(kwargs, key, u_item) ==
    LET kw_item == DictGet(kwargs, key)
    IN IF ~Truth(u_item) THEN Merged(kwargs, "none")
       ELSE IF u_item.kind \in {"tuple", "list"}
       THEN IF Truth(kw_item)
            THEN IF kw_item.kind = "list"
                 THEN Merged(DictSet(kwargs, key,
                                     PyValue("list", kw_item.v \o u_item.v)), "none")
                 ELSE Merged(kwargs, "AttributeError")
            ELSE Merged(DictSet(kwargs, key, u_item), "none")
       ELSE IF u_item.kind = "dict"
       THEN IF Truth(kw_item)
            THEN IF kw_item.kind = "dict"
                 THEN Merged(DictSet(kwargs, key,
                                     PyValue("dict", DictUpdate(kw_item.v, u_item.v))),
                             "none")
                 ELSE Merged(kwargs, "AttributeError")
            ELSE Merged(DictSet(kwargs, key, u_item), "none")
       ELSE Merged(DictSet(kwargs, key, u_item), "none")

(* for key, u_item in six.iteritems(update) *)
RECURSIVE update_items(_, _)
update_items(kwargs, u_dict) ==
    IF u_dict = <<>> THEN Merged(kwargs, "none")
    ELSE LET merged == update_item(kwargs, u_dict[1][1], u_dict[1][2])
         IN IF merged.exc # "none" THEN merged
            ELSE update_items(merged.kwargs, Tail(u_dict))

(* update_kwargs(kwargs, *updates); an empty update is skipped. *)
RECURSIVE update_kwargs(_, _)
update_kwargs(kwargs, updates) ==
    IF updates = <<>> THEN Merged(kwargs, "none")
    ELSE LET merged == update_items(kwargs, updates[1])
         IN IF merged.exc # "none" THEN merged
            ELSE update_kwargs(merged.kwargs, Tail(updates))

(* ===================== specification: instance algebra ================== *)
MaxNested == 2        \* most instance names in one nested instance tuple

Prefix(n) == [k \in 1..n |-> ToString(k)]

Reverse(s) == [k \in DOMAIN s |-> s[Len(s) + 1 - k]]

(* The instance lists unit app declares in the maps under test. *)
Declarations ==
    {Prefix(n) : n \in 0..MaxInstances} \cup {Reverse(Prefix(n)) : n \in 0..MaxInstances}

PlainConfig(instances) ==
    ContainerConfiguration(instances, <<>>, <<>>, <<>>, NoNetwork, FALSE)

(* Map m: unit app with the given instances, unit data without instances. *)
InstMap(declared) ==
    ContainerMap("m", << <<"app", PlainConfig(declared)>>,
                         <<"data", PlainConfig(<<>>)>> >>, FALSE, TRUE)

GivenInstances == {None} \cup InstanceNames

(* Addresses of single-level calls; unit ghost is on no map. *)
SingleAddrs ==
    {<<"m", "app", i>> : i \in GivenInstances}
    \cup {<<"m", "data", None>>, <<"m", "data", "1">>, <<"m", "ghost", None>>}

NestedAddrs ==
    {<<"m", "app", t>> : t \in SeqsUpTo(GivenInstances, MaxNested)}
    \cup {<<"m", "data", <<>>>>, <<"m", "data", <<None, "1">>>>}

SingleIdSeqs == SeqsUpTo(SingleAddrs, MaxIds)

(* A nested call gives at most two addresses. *)
NestedIdSeqs ==
    {<<>>} \cup {<<a>> : a \in NestedAddrs} \cup {<<a, b>> : a, b \in NestedAddrs}

NoCall == [op |-> "none"]
NoResult == Outcome(<<>>, "none", <<>>)
NoPolicy == [built |-> FALSE, exc |-> "none"]

InitInst ==
    /\ container_maps \in {("m" :> InstMap(d)) : d \in Declarations}
    /\ policy = NoPolicy
    /\ pc = "idle"
    /\ call = NoCall
    /\ result = NoResult

InstanceCall(op, config_ids, single_instances, by_ext_map) ==
    /\ call' = [op |-> op, config_ids |-> config_ids,
                single_instances |-> single_instances, by_ext_map |-> by_ext_map]
    /\ result' =
        LET ext_map == IF by_ext_map THEN {container_maps["m"]} ELSE {}
            ext_maps == IF by_ext_map THEN <<>> ELSE container_maps
        IN IF op = "group_instances"
           THEN group_instances(config_ids, single_instances, ext_map, ext_maps)
           ELSE expand_instances(config_ids, single_instances, ext_map, ext_maps)
    /\ pc' = "done"
    /\ UNCHANGED <<container_maps, policy>>

GroupInstancesSingle ==
    /\ pc = "idle"
    /\ \E ids \in SingleIdSeqs, by_ext_map \in BOOLEAN :
           InstanceCall("group_instances", ids, TRUE, by_ext_map)

GroupInstancesNested ==
    /\ pc = "idle"
    /\ \E ids \in NestedIdSeqs :
           InstanceCall("group_instances", ids, FALSE, FALSE)

ExpandInstancesSingle ==
    /\ pc = "idle"
    /\ \E ids \in SingleIdSeqs, by_ext_map \in BOOLEAN :
           InstanceCall("expand_instances", ids, TRUE, by_ext_map)

ExpandInstancesNested ==
    /\ pc = "idle"
    /\ \E ids \in NestedIdSeqs :
           InstanceCall("expand_instances", ids, FALSE, FALSE)

(* expand_instances(group_instances(config_ids, ...), single_instances=False,
   ...): sorted() consumes the grouped ids before anything is yielded, so
   an error of group_instances leaves nothing yielded. *)
GroupThenExpand ==
    /\ pc = "idle"
    /\ \E single_instances \in BOOLEAN, by_ext_map \in BOOLEAN :
        \E ids \in IF single_instances THEN SingleIdSeqs ELSE NestedIdSeqs :
           LET ext_map == IF by_ext_map THEN {container_maps["m"]} ELSE {}
               ext_maps == IF by_ext_map THEN <<>> ELSE container_maps
               grouped == group_instances(ids, single_instances, ext_map, ext_maps)
           IN /\ call' = [op |-> "group_then_expand", config_ids |-> ids,
                          single_instances |-> single_instances,
                          by_ext_map |-> by_ext_map]
              /\ result' = IF grouped.exc # "none"
                           THEN Outcome(<<>>, grouped.exc, grouped.key)
                           ELSE expand_instances(grouped.yielded, FALSE, ext_map, ext_maps)
    /\ pc' = "done"
    /\ UNCHANGED <<container_maps, policy>>

NextInst ==
    \/ GroupInstancesSingle
    \/ GroupInstancesNested
    \/ ExpandInstancesSingle
    \/ ExpandInstancesNested
    \/ GroupThenExpand

SpecInst == InitInst /\ [][NextInst]_vars

(* ===================== specification: dependency items ================= *)
(* Maps "m" with the units app, base (abstract), data and web.  The
   references of web and app are drawn from RefList, at most MaxRefs of
   them; data declares a prefix of the instance names and may attach the
   alias vol; ghost is no unit of the map. *)
MaxRefs == 2

SharedVolume(volume) == [volume |-> volume]
ContainerLink(container) == [container |-> container]

Ref(src, kind, target) == [src |-> src, kind |-> kind, target |-> target]

DataSuffixed == [k \in 1..MaxInstances |-> <<"data", ToString(k)>>]

WebUses == << <<"data">>, <<"vol">>, <<"data", "vol">>, <<"ghost">>, <<"app">> >> \o DataSuffixed
WebLinks == << <<"data">>, <<"app">>, <<"ghost">> >> \o DataSuffixed
WebNetworks == << <<"data">>, <<"data", "1">>, <<"ghost">> >>

RefList ==
    [k \in DOMAIN WebUses |-> Ref("web", "uses", WebUses[k])]
    \o [k \in DOMAIN WebLinks |-> Ref("web", "links", WebLinks[k])]
    \o [k \in DOMAIN WebNetworks |-> Ref("web", "network", WebNetworks[k])]
    \o << Ref("app", "links", <<"data">>), Ref("app", "uses", <<"ghost">>),
          Ref("app", "links", <<"web">>) >>

RECURSIVE UpTo(_, _)
UpTo(S, n) ==
    IF n = 0 THEN {{}}
    ELSE UpTo(S, n - 1) \cup {T \cup {x} : T \in UpTo(S, n - 1), x \in S}

RefChoices ==
    {I \in UpTo(DOMAIN RefList, MaxRefs) :
        Cardinality({k \in I : RefList[k].kind = "network"}) <= 1}

Targets(chosen, src, kind) ==
    LET marked == [k \in DOMAIN RefList |-> [ref |-> RefList[k], on |-> k \in chosen]]
        picked == SelectSeq(marked, LAMBDA r : r.on /\ r.ref.src = src /\ r.ref.kind = kind)
    IN [k \in DOMAIN picked |-> picked[k].ref.target]

RefConfig(chosen, src, instances, attaches) ==
    LET uses == Targets(chosen, src, "uses")
        links == Targets(chosen, src, "links")
        nets == Targets(chosen, src, "network")
    IN ContainerConfiguration(
           instances,
           [k \in DOMAIN uses |-> SharedVolume(uses[k])],
           attaches,
           [k \in DOMAIN links |-> ContainerLink(links[k])],
           IF nets = <<>> THEN NoNetwork
           ELSE UnitNetwork(partition(nets[1]).c, OrNone(partition(nets[1]).i)),
           FALSE)

AbstractConfig == ContainerConfiguration(<<>>, <<>>, <<>>, <<>>, NoNetwork, TRUE)

DepMap(chosen, declared, attaches, use_attached_parent_name) ==
    ContainerMap("m",
                 << <<"app", RefConfig(chosen, "app", <<>>, <<>>)>>,
                    <<"base", AbstractConfig>>,
                    <<"data", RefConfig(chosen, "data", declared, attaches)>>,
                    <<"web", RefConfig(chosen, "web", <<>>, <<>>)>> >>,
                 use_attached_parent_name, FALSE)

InitDeps ==
    /\ container_maps \in
           {("m" :> DepMap(chosen, Prefix(n), attaches, ap)) :
               chosen \in RefChoices, n \in 0..MaxInstances,
               attaches \in {<<>>, <<"vol">>}, ap \in BOOLEAN}
    /\ policy = NoPolicy
    /\ pc = "idle"
    /\ call = NoCall
    /\ result = NoResult

DependencyItems ==
    /\ pc = "idle"
    /\ \E reverse \in BOOLEAN :
           /\ call' = [op |-> "dependency_items", reverse |-> reverse]
           /\ result' = dependency_items(container_maps["m"], reverse)
    /\ pc' = "done"
    /\ UNCHANGED <<container_maps, policy>>

NewPolicy ==
    /\ pc = "idle"
    /\ call' = [op |-> "BasePolicy"]
    /\ policy' = BasePolicy__init__(container_maps, {get_default_client_name})
    /\ pc' = "done"
    /\ UNCHANGED <<container_maps, result>>

NextDeps == DependencyItems \/ NewPolicy

SpecDeps == InitDeps /\ [][NextDeps]_vars

(* ================ specification: policy and state generators =========== *)
(* Maps "m" of four units without instances whose links are drawn from all
   pairs of different units, at most MaxLinks of them, cycles included.  The
   policy is constructed over the map with the default client; the calls
   request batches of at most MaxBatch container addresses. *)
MaxLinks == 3
MaxBatch == 2

Units == <<"app", "data", "db", "web">>

LinkList ==
    Flatten([i \in DOMAIN Units |->
                SelectSeq([j \in DOMAIN Units |-> <<Units[i], Units[j]>>],
                          LAMBDA e : e[1] # e[2])])

LinkChoices == UpTo(DOMAIN LinkList, MaxLinks)

LinkConfig(chosen, src) ==
    LET marked == [k \in DOMAIN LinkList |-> [link |-> LinkList[k], on |-> k \in chosen]]
        picked == SelectSeq(marked, LAMBDA l : l.on /\ l.link[1] = src)
    IN ContainerConfiguration(<<>>, <<>>, <<>>,
                              [k \in DOMAIN picked |-> ContainerLink(<<picked[k].link[2]>>)],
                              NoNetwork, FALSE)

LinkMap(chosen) ==
    ContainerMap("m", [k \in DOMAIN Units |-> <<Units[k], LinkConfig(chosen, Units[k])>>],
                 FALSE, FALSE)

Requested == {<<ITEM_TYPE_CONTAINER, "m", Units[k], None>> : k \in DOMAIN Units}

Batches == SeqsUpTo(Requested, MaxBatch)

Init ==
    /\ container_maps \in {("m" :> LinkMap(chosen)) : chosen \in LinkChoices}
    /\ policy = BasePolicy__init__(container_maps, {get_default_client_name})
    /\ pc = "idle"
    /\ call = NoCall
    /\ result = NoResult

GetDependencies ==
    /\ pc = "idle" /\ policy.built
    /\ \E k \in DOMAIN Units :
           /\ call' = [op |-> "get_dependencies", args |-> <<"m", Units[k]>>]
           /\ result' = get_dependencies(policy, <<"m", Units[k]>>)
    /\ pc' = "done"
    /\ UNCHANGED <<container_maps, policy>>

GetDependents ==
    /\ pc = "idle" /\ policy.built
    /\ \E k \in DOMAIN Units :
           /\ call' = [op |-> "get_dependents", args |-> <<"m", Units[k]>>]
           /\ result' = get_dependents(policy, <<"m", Units[k]>>)
    /\ pc' = "done"
    /\ UNCHANGED <<container_maps, policy>>

SingleGetStates ==
    /\ pc = "idle" /\ policy.built
    /\ \E config_ids \in Batches :
           /\ call' = [op |-> "get_states", generator |-> "SingleStateGenerator",
                       config_ids |-> config_ids]
           /\ result' = SingleStateGenerator_get_states(policy, config_ids)
    /\ pc' = "done"
    /\ UNCHANGED <<container_maps, policy>>

DependencyGetStates ==
    /\ pc = "idle" /\ policy.built
    /\ \E config_ids \in Batches :
           /\ call' = [op |-> "get_states", generator |-> "DependencyStateGenerator",
                       config_ids |-> config_ids]
           /\ result' = get_states(policy, TRUE, config_ids)
    /\ pc' = "done"
    /\ UNCHANGED <<container_maps, policy>>

DependentGetStates ==
    /\ pc = "idle" /\ policy.built
    /\ \E config_ids \in Batches :
           /\ call' = [op |-> "get_states", generator |-> "DependentStateGenerator",
                       config_ids |-> config_ids]
           /\ result' = get_states(policy, FALSE, config_ids)
    /\ pc' = "done"
    /\ UNCHANGED <<container_maps, policy>>

Next ==
    \/ GetDependencies
    \/ GetDependents
    \/ SingleGetStates
    \/ DependencyGetStates
    \/ DependentGetStates

Spec == Init /\ [][Next]_vars

(* ======================= specification: extension ====================== *)
(* Maps "m" with the units app, base and web.  web extends up to
   MaxExtends different names, app and base at most one; ghost is no unit
   of the map, and the extends may form cycles.  Every unit has a link of
   its own and may set an image of its own; base may be abstract. *)
MaxExtends == 2

ExtendsOfWeb ==
    {names \in SeqsUpTo({"app", "base", "web", "ghost"}, MaxExtends) :
        \A i \in DOMAIN names, j \in DOMAIN names : i # j => names[i] # names[j]}

ExtendsOfApp == {<<>>, <<"base">>, <<"web">>, <<"ghost">>}

ExtendsOfBase == {<<>>, <<"web">>, <<"base">>, <<"app">>}

OwnImage(unit) == {"image_" \o unit}

OwnLink(unit) == ContainerLink(<<"peer_" \o unit>>)

ExtConfig(unit, extends, image, abstract) ==
    [ContainerConfiguration(<<>>, <<>>, <<>>, <<OwnLink(unit)>>, NoNetwork, abstract)
        EXCEPT !.extends = extends, !.image = image]

ExtMap(e_app, e_base, e_web, imaged, abstract_base) ==
    ContainerMap("m",
                 << <<"app", ExtConfig("app", e_app,
                                       IF "app" \in imaged THEN OwnImage("app") ELSE {},
                                       FALSE)>>,
                    <<"base", ExtConfig("base", e_base,
                                        IF "base" \in imaged THEN OwnImage("base") ELSE {},
                                        abstract_base)>>,
                    <<"web", ExtConfig("web", e_web,
                                       IF "web" \in imaged THEN OwnImage("web") ELSE {},
                                       FALSE)>> >>,
                 FALSE, FALSE)

InitExt ==
    /\ container_maps \in
           {("m" :> ExtMap(e_app, e_base, e_web, imaged, abstract_base)) :
               e_app \in ExtendsOfApp, e_base \in ExtendsOfBase, e_web \in ExtendsOfWeb,
               imaged \in SUBSET {"app", "base", "web"}, abstract_base \in BOOLEAN}
    /\ policy = NoPolicy
    /\ pc = "idle"
    /\ call = NoCall
    /\ result = NoResult

GetExtended ==
    /\ pc = "idle"
    /\ \E k \in DOMAIN container_maps["m"].containers :
           LET extended_config == get_extended(container_maps["m"],
                                               container_maps["m"].containers[k][2])
           IN /\ call' = [op |-> "get_extended",
                          config_name |-> container_maps["m"].containers[k][1]]
              /\ result' = IF extended_config.exc # "none"
                           THEN Outcome(<<>>, extended_config.exc, extended_config.key)
                           ELSE Outcome(<<extended_config.config>>, "none", <<>>)
    /\ pc' = "done"
    /\ UNCHANGED <<container_maps, policy>>

GetExtendedMap ==
    /\ pc = "idle"
    /\ call' = [op |-> "get_extended_map"]
    /\ result' = LET error == get_extended_map_error(container_maps["m"])
                 IN IF error.exc # "none" THEN Outcome(<<>>, error.exc, error.key)
                    ELSE Outcome(<<get_extended_map(container_maps["m"])>>, "none", <<>>)
    /\ pc' = "done"
    /\ UNCHANGED <<container_maps, policy>>

(* m.get_extended_map().get_extended_map(): both maps are kept. *)
GetExtendedMapTwice ==
    /\ pc = "idle"
    /\ call' = [op |-> "get_extended_map_twice"]
    /\ result' =
        LET error == get_extended_map_error(container_maps["m"])
            once == get_extended_map(container_maps["m"])
        IN IF error.exc # "none" THEN Outcome(<<>>, error.exc, error.key)
           ELSE IF get_extended_map_error(once).exc # "none"
           THEN Outcome(<<once>>, get_extended_map_error(once).exc,
                        get_extended_map_error(once).key)
           ELSE Outcome(<<once, get_extended_map(once)>>, "none", <<>>)
    /\ pc' = "done"
    /\ UNCHANGED <<container_maps, policy>>

NextExt == GetExtended \/ GetExtendedMap \/ GetExtendedMapTwice

SpecExt == InitExt /\ [][NextExt]_vars

(* ================ specification: extended map as snapshot ============== *)
(* The maps of the extension, an extended map taken of them and kept by
   the caller, and then one update or merge of a unit of the source map. *)
TakeExtendedMap ==
    /\ pc = "idle"
    /\ call' = [op |-> "get_extended_map"]
    /\ LET error == get_extended_map_error(container_maps["m"])
       IN IF error.exc # "none"
          THEN /\ result' = [exc |-> error.exc, key |-> error.key,
                             refs |-> <<>>, returned |-> <<>>]
               /\ pc' = "done"
          ELSE /\ result' = [exc |-> "none", key |-> <<>>,
                             refs |-> get_extended_map_refs(container_maps["m"]),
                             returned |-> get_extended_map(container_maps["m"])]
               /\ pc' = "extended"
    /\ UNCHANGED <<container_maps, policy>>

UpdateDefaultFromDict ==
    /\ pc = "extended"
    /\ \E key \in {"app", "base", "web"} :
           /\ call' = [op |-> "update_default_from_dict", key |-> key]
           /\ container_maps' =
                  [container_maps EXCEPT !["m"] =
                      update_default_from_dict(@, key, [image |-> {"image_new"}])]
    /\ pc' = "done"
    /\ UNCHANGED <<policy, result>>

MergeDefaultFromDict ==
    /\ pc = "extended"
    /\ \E key \in {"app", "base", "web"} :
           /\ call' = [op |-> "merge_default_from_dict", key |-> key]
           /\ container_maps' =
                  [container_maps EXCEPT !["m"] =
                      merge_default_from_dict(@, key,
                                              [links |-> <<ContainerLink(<<"peer_new">>)>>])]
    /\ pc' = "done"
    /\ UNCHANGED <<policy, result>>

NextSnapshot == TakeExtendedMap \/ UpdateDefaultFromDict \/ MergeDefaultFromDict

SpecSnapshot == InitExt /\ [][NextSnapshot]_vars

(* ==================== specification: integrity check =================== *)
(* Maps "m" with the units data and web.  data may declare the instance
   "1", attach the alias vol (once or twice) and share volumes; web may
   attach vol as well, use a volume, link units and join a unit's network.
   ghost is no unit of the map, hostvol is the alias data binds. *)
CheckGroups ==
    { <<>>,
      << <<<<"g">>, << <<"web">>, <<"data", "1">> >> >> >>,
      << <<<<"g">>, << <<"ghost">>, <<"web", "1">> >> >> >>,
      << <<<<"web">>, << <<"data">> >> >> >> }

(* shares, binds and the host table of the map *)
CheckSharing ==
    { [shares |-> <<>>, binds |-> <<>>, host |-> {}],
      [shares |-> <<"/srv">>, binds |-> <<>>, host |-> {}],
      [shares |-> <<>>, binds |-> <<HostBind(<<"/etc", "/srv/etc">>, TRUE)>>, host |-> {}],
      [shares |-> <<>>, binds |-> <<HostBind(<<"hostvol">>, FALSE)>>, host |-> {"hostvol"}],
      [shares |-> <<>>, binds |-> <<HostBind(<<"hostvol">>, FALSE)>>, host |-> {}] }

CheckVolumes == { {"vol", "hostvol"}, {"hostvol"}, {"vol"} }

CheckUses ==
    { <<>>, <<SharedVolume(<<"data">>)>>, <<SharedVolume(<<"vol">>)>>,
      <<SharedVolume(<<"data", "vol">>)>>, <<SharedVolume(<<"data", "1">>)>>,
      <<SharedVolume(<<"ghost">>)>> }

CheckLinks ==
    { <<>>, <<ContainerLink(<<"data">>)>>,
      <<ContainerLink(<<"ghost">>), ContainerLink(<<"data", "2">>)>> }

CheckNetworks == { NoNetwork, UnitNetwork("data", None), UnitNetwork("ghost", None) }

CheckMap(ap, groups, instances, data_attaches, sharing, volumes,
         web_attaches, uses, links, network) ==
    [ContainerMap("m",
                  << <<"data", [ContainerConfiguration(instances, <<>>, data_attaches,
                                                       <<>>, NoNetwork, FALSE)
                                   EXCEPT !.shares = sharing.shares,
                                          !.binds = sharing.binds]>>,
                     <<"web", ContainerConfiguration(<<>>, uses, web_attaches,
                                                     links, network, FALSE)>> >>,
                  ap, FALSE)
        EXCEPT !.groups = groups, !.host = sharing.host, !.volumes = volumes]

InitCheck ==
    /\ container_maps \in
           {("m" :> CheckMap(ap, groups, instances, data_attaches, sharing, volumes,
                             web_attaches, uses, links, network)) :
               ap \in BOOLEAN, groups \in CheckGroups,
               instances \in {<<>>, <<"1">>},
               data_attaches \in {<<>>, <<"vol">>, <<"vol", "vol">>},
               sharing \in CheckSharing, volumes \in CheckVolumes,
               web_attaches \in {<<>>, <<"vol">>},
               uses \in CheckUses, links \in CheckLinks, network \in CheckNetworks}
    /\ policy = NoPolicy
    /\ pc = "idle"
    /\ call = NoCall
    /\ result = NoResult

CheckIntegrity ==
    /\ pc = "idle"
    /\ \E check_duplicates \in BOOLEAN :
           /\ call' = [op |-> "check_integrity", check_duplicates |-> check_duplicates]
           /\ result' = check_integrity(container_maps["m"], check_duplicates)
    /\ pc' = "done"
    /\ UNCHANGED <<container_maps, policy>>

NextCheck == CheckIntegrity

SpecCheck == InitCheck /\ [][NextCheck]_vars

(* ================ specification: names of the map's objects ============ *)
(* Maps "m" that pass or fail the check on the names alone: data may
   declare the instance "1" or "vol", attach the alias vol or web and share
   a volume; web may attach vol and use the volumes of data. *)
NamedSharing ==
    { [shares |-> <<>>, binds |-> <<>>, host |-> {}],
      [shares |-> <<"/srv">>, binds |-> <<>>, host |-> {}] }

InitNames ==
    /\ container_maps \in
           {("m" :> CheckMap(ap, <<>>, instances, data_attaches, sharing, volumes,
                             web_attaches, uses, <<>>, NoNetwork)) :
               ap \in BOOLEAN,
               instances \in {<<>>, <<"1">>, <<"vol">>},
               data_attaches \in {<<>>, <<"vol">>, <<"web">>},
               sharing \in NamedSharing,
               volumes \in { {"vol", "web"}, {"vol"} },
               web_attaches \in {<<>>, <<"vol">>},
               uses \in {<<>>, <<SharedVolume(<<"data">>)>>}}
    /\ policy = NoPolicy
    /\ pc = "idle"
    /\ call = NoCall
    /\ result = NoResult

SpecNames == InitNames /\ [][NextCheck]_vars

(* ==================== specification: container state =================== *)
(* get_state of the state object of container m.web.1 after its inspect,
   for every detail the runtime may have answered with and the options of
   the generator: the default exit codes or codes of the caller, with or
   without a forced update of the container. *)
ExitCodes == {-127, -1, 0, 1}

StartTimes == {INITIAL_START_TIME, "2026-01-01T00:00:00Z"}

Details ==
    {NOT_FOUND} \cup
    {ContainerDetail(running, started, code, restarting) :
        running \in BOOLEAN, started \in StartTimes,
        code \in ExitCodes, restarting \in BOOLEAN}

(* The selections of the caller: none, container m.web.1, another instance
   of the unit, network n of the map. *)
ForceUpdates ==
    { {},
      {<<ITEM_TYPE_CONTAINER, "m", "web", "1">>},
      {<<ITEM_TYPE_CONTAINER, "m", "web", "2">>},
      {<<ITEM_TYPE_NETWORK, "m", "n", None>>} }

(* What client.inspect_network returns; get_state reads none of it. *)
NetworkDetails == {NOT_FOUND, [Name |-> "m.n"]}

StateOptions ==
    {[nonrecoverable_exit_codes |-> codes, force_update |-> force_update] :
        codes \in {nonrecoverable_exit_codes, {1}},
        force_update \in ForceUpdates}

InitState ==
    /\ container_maps = <<>>
    /\ policy = NoPolicy
    /\ pc = "idle"
    /\ call = NoCall
    /\ result = NoResult

ContainerGetState ==
    /\ pc = "idle"
    /\ \E options \in StateOptions, detail \in Details :
           LET self == ContainerBaseState(options, "m", "web", "1", detail)
           IN /\ call' = [op |-> "get_state", self |-> self]
              /\ result' = ContainerBaseState_get_state(self)
    /\ pc' = "done"
    /\ UNCHANGED <<container_maps, policy>>

NetworkGetState ==
    /\ pc = "idle"
    /\ \E options \in StateOptions, detail \in NetworkDetails :
           LET self == NetworkBaseState(options, "m", "n", detail)
           IN /\ call' = [op |-> "network_get_state", self |-> self]
              /\ result' = NetworkBaseState_get_state(self)
    /\ pc' = "done"
    /\ UNCHANGED <<container_maps, policy>>

(* The names the default client knows, and what it answers for a
   container it knows. *)
KnownNames ==
    { {}, {<<"m", "web", "1">>}, {<<"m", "vol">>}, {<<"m", "web", "vol">>} }

Answers ==
    { ContainerDetail(TRUE, "2026-01-01T00:00:00Z", 0, FALSE),
      ContainerDetail(FALSE, INITIAL_START_TIME, 0, FALSE) }

DefaultOptions ==
    [nonrecoverable_exit_codes |-> nonrecoverable_exit_codes, force_update |-> {}]

(* c_state.inspect() and c_state.get_state() on a new state object, as in
   generate_config_states, for instance 1 of web or its attached volume
   vol. *)
ContainerInspect ==
    /\ pc = "idle"
    /\ \E known \in KnownNames, answer \in Answers,
          attached \in BOOLEAN, use_attached_parent_name \in BOOLEAN,
          force_update \in ForceUpdates :
           LET self == ContainerBaseState(
                           [DefaultOptions EXCEPT !.force_update = force_update],
                           "m", "web", IF attached THEN "vol" ELSE "1", None)
                       @@ [config_flags |-> IF attached THEN {"ATTACHED"} ELSE {},
                           client_name |-> get_default_client_name,
                           use_attached_parent_name |-> use_attached_parent_name,
                           container_name |-> None]
               inspected == ContainerBaseState_inspect(
                                self, (get_default_client_name :> known),
                                [inspect_container |-> answer])
           IN /\ call' = [op |-> "inspect", kind |-> ITEM_TYPE_CONTAINER,
                          self |-> self, known |-> known]
              /\ result' = [exc |-> inspected.exc, calls |-> inspected.calls,
                            name |-> inspected.self.container_name,
                            state |-> ContainerBaseState_get_state(inspected.self)]
    /\ pc' = "done"
    /\ UNCHANGED <<container_maps, policy>>

NetworkInspect ==
    /\ pc = "idle"
    /\ \E known \in {{}, {<<"m", "n">>}}, force_update \in ForceUpdates :
           LET self == NetworkBaseState(
                           [DefaultOptions EXCEPT !.force_update = force_update],
                           "m", "n", None)
               inspected == NetworkBaseState_inspect(self)
           IN /\ call' = [op |-> "inspect", kind |-> ITEM_TYPE_NETWORK,
                          self |-> self, known |-> known]
              /\ result' = IF inspected.exc # "none"
                           THEN [exc |-> inspected.exc, calls |-> inspected.calls,
                                 name |-> None, state |-> <<>>]
                           ELSE [exc |-> "none", calls |-> inspected.calls,
                                 name |-> None,
                                 state |-> NetworkBaseState_get_state(inspected.self)]
    /\ pc' = "done"
    /\ UNCHANGED <<container_maps, policy>>

NextState == ContainerGetState \/ NetworkGetState \/ ContainerInspect \/ NetworkInspect

SpecState == InitState /\ [][NextState]_vars

(* ======================= specification: clients ======================== *)
(* Maps "m" with the one unit web; the unit and the map each name no
   client, one or two, and the policy knows the default client and c1,
   with or without c2.  The calls are get_clients as the policy declares
   it and generate_config_states for an object of every kind, of web or of
   ghost, which the map does not configure. *)
ClientLists == {<<>>, <<"c1">>, <<"c2", "c1">>}

ClientMap(unit_clients, map_clients) ==
    [ContainerMap("m",
                  << <<"web", [ContainerConfiguration(<<>>, <<>>, <<>>, <<>>,
                                                      NoNetwork, FALSE)
                                  EXCEPT !.clients = unit_clients]>> >>,
                  FALSE, FALSE)
        EXCEPT !.clients = map_clients]

InitClients ==
    /\ container_maps \in
           {("m" :> ClientMap(unit_clients, map_clients)) :
               unit_clients \in ClientLists, map_clients \in ClientLists}
    /\ policy \in {BasePolicy__init__(container_maps, known) :
                      known \in {{get_default_client_name, "c1"},
                                 {get_default_client_name, "c1", "c2"}}}
    /\ pc = "idle"
    /\ call = NoCall
    /\ result = NoResult

GetClients ==
    /\ pc = "idle" /\ policy.built
    /\ call' = [op |-> "get_clients", config_name |-> "web"]
    /\ result' = get_clients(policy,
                             <<CHOOSE c \in get_existing(policy._maps["m"], "web") : TRUE,
                               policy._maps["m"]>>)
    /\ pc' = "done"
    /\ UNCHANGED <<container_maps, policy>>

GenerateConfigStates ==
    /\ pc = "idle" /\ policy.built
    /\ \E config_type \in {ITEM_TYPE_CONTAINER, ITEM_TYPE_VOLUME, ITEM_TYPE_NETWORK, "image"},
          config_name \in {"web", "ghost"} :
           /\ call' = [op |-> "generate_config_states",
                       args |-> <<config_type, "m", config_name, None>>]
           /\ result' = generate_config_states(policy,
                                               <<config_type, "m", config_name, None>>,
                                               FALSE)
    /\ pc' = "done"
    /\ UNCHANGED <<container_maps, policy>>

NextClients == GetClients \/ GenerateConfigStates

SpecClients == InitClients /\ [][NextClients]_vars

(* =================== specification: keyword arguments ================== *)
(* kwargs with or without an entry a, and one or two updates of one or two
   items; the values are of every kind, empty and not. *)
PyValues ==
    { PyNone,
      PyValue("int", <<"0">>), PyValue("int", <<"1">>),
      PyValue("bool", <<"False">>),
      PyValue("str", <<>>), PyValue("str", <<"x">>),
      PyValue("list", <<>>), PyValue("list", <<"p">>),
      PyValue("tuple", <<>>), PyValue("tuple", <<"q">>),
      PyValue("dict", <<>>), PyValue("dict", << <<"k", "1">> >>),
      PyValue("dict", << <<"k", "2">>, <<"l", "3">> >>) }

KwargsDicts == {<<>>} \cup {<< <<"a", x>> >> : x \in PyValues}

UpdateDicts ==
    {<<>>} \cup {<< <<"a", x>> >> : x \in PyValues}
           \cup {<< <<"b", PyValue("str", <<"y">>)>>, <<"a", x>> >> : x \in PyValues}

LaterUpdates ==
    { <<>>, << << <<"a", PyValue("list", <<"r">>)>> >> >>,
      << << <<"a", PyValue("int", <<"0">>)>> >> >> }

InitKwargs ==
    /\ container_maps = <<>>
    /\ policy = NoPolicy
    /\ pc = "idle"
    /\ call = NoCall
    /\ result = NoResult

UpdateKwargs ==
    /\ pc = "idle"
    /\ \E kwargs \in KwargsDicts, u_dict \in UpdateDicts, later \in LaterUpdates :
           /\ call' = [op |-> "update_kwargs", kwargs |-> kwargs,
                       updates |-> <<u_dict>> \o later]
           /\ result' = update_kwargs(kwargs, <<u_dict>> \o later)
    /\ pc' = "done"
    /\ UNCHANGED <<container_maps, policy>>

NextKwargs == UpdateKwargs

SpecKwargs == InitKwargs /\ [][NextKwargs]_vars

(* ------------------- claims on the instance set algebra ---------------- *)
InstanceCallDone(op) == pc = "done" /\ call.op = op

DeclaredOf(unit) ==
    LET config == get_existing(container_maps["m"], unit)
    IN (CHOOSE c \in config : TRUE).instances

(* The addresses of the call that name the unit, in argument order. *)
GivenAddrs(unit) == SelectSeq(call.config_ids, LAMBDA di : di[2] = unit)

RECURSIVE DistinctInOrder(_)
DistinctInOrder(s) ==
    IF s = <<>> THEN <<>>
    ELSE LET init == DistinctInOrder(SubSeq(s, 1, Len(s) - 1))
         IN IF s[Len(s)] \in Range(init) THEN init ELSE Append(init, s[Len(s)])

(* The instance names the call gives for the unit, one entry per name
   written in the call, in the order written. *)
GivenSeq(unit) ==
    IF call.single_instances
    THEN [k \in DOMAIN GivenAddrs(unit) |-> GivenAddrs(unit)[k][3]]
    ELSE Flatten([k \in DOMAIN GivenAddrs(unit) |->
                     IF GivenAddrs(unit)[k][3] = <<>> THEN <<None>>
                     ELSE GivenAddrs(unit)[k][3]])

GivenSet(unit) == Range(GivenSeq(unit))

YieldedFor(unit) == SelectSeq(result.yielded, LAMBDA e : e[2] = unit)

(* The call names only declared instances (or the wildcard) of a unit that
   declares instances. *)
GivenDeclared(unit) ==
    /\ DeclaredOf(unit) # <<>>
    /\ GivenSet(unit) \subseteq Range(DeclaredOf(unit)) \cup {None}

(* How many instances the call gives for the unit: one per address of a
   single-level call, one per distinct name of a nested call. *)
GivenCount(unit) ==
    IF call.single_instances THEN Len(GivenSeq(unit)) ELSE Cardinality(GivenSet(unit))

(* C8 as claimed: group_instances yields the wildcard (None, ) for a unit
   exactly when the instances given for it contain None or are as many as
   the unit declares (its tuple then names no instance, only None), and an
   explicit tuple of the given instances otherwise. *)
C8_GroupCollapsesWildcardOrFull ==
    InstanceCallDone("group_instances") =>
        \A k \in DOMAIN result.yielded :
            LET e == result.yielded[k]
            IN IF None \in GivenSet(e[2]) \/ GivenCount(e[2]) = Len(DeclaredOf(e[2]))
               THEN Range(e[3]) = {None}
               ELSE Range(e[3]) = GivenSet(e[2])

(* C8 as amended: one entry is yielded per existing unit of the input; it
   is the wildcard (None, ) if the unit declares instances and the given
   instances contain None or are as many as the declared ones, and a tuple
   of exactly the given instances otherwise.  Of instances [1, 2] the
   request {1, 2} collapses and the request {1} does not. *)
C8_GroupCollapsesIfUnitDeclaresInstances ==
    InstanceCallDone("group_instances") =>
        /\ \A k \in DOMAIN result.yielded :
              LET e == result.yielded[k]
              IN IF /\ DeclaredOf(e[2]) # <<>>
                    /\ \/ None \in GivenSet(e[2])
                       \/ GivenCount(e[2]) = Len(DeclaredOf(e[2]))
                 THEN e[3] = <<None>>
                 ELSE Range(e[3]) = GivenSet(e[2])
        /\ \A unit \in {"app", "data"} :
              Len(YieldedFor(unit)) = IF GivenAddrs(unit) = <<>> THEN 0 ELSE 1

(* Witness of C8: app declares two instances; the request for both has
   collapsed to the wildcard. *)
C8_Witness ==
    /\ InstanceCallDone("group_instances")
    /\ Len(DeclaredOf("app")) = 2
    /\ GivenSet("app") = Range(DeclaredOf("app"))
    /\ GivenCount("app") = 2
    /\ result.yielded = << <<"m", "app", <<None>>>> >>

(* C9: a tuple that is not collapsed holds each given instance exactly
   once, in argument (first-seen) order, and a repeated name never makes a
   strict subset of the declared instances count as all of them.  Stated
   for calls that name declared instances. *)
C9_ExplicitTupleDeduplicated ==
    InstanceCallDone("group_instances") =>
        \A k \in DOMAIN result.yielded :
            LET e == result.yielded[k]
                given == GivenSet(e[2])
                declared == Range(DeclaredOf(e[2]))
            IN GivenDeclared(e[2]) =>
                  /\ e[3] # <<None>> => e[3] = DistinctInOrder(GivenSeq(e[2]))
                  /\ (given \subseteq declared /\ given # declared) => e[3] # <<None>>

(* C10: expand_instances emits, for a unit given with the wildcard, the
   unit's declared instance list, or the given instances (the single None)
   if it declares none; instances given without a wildcard are emitted
   unchanged; every emitted item is one (map, unit, instance) address. *)
C10_ExpandReplacesWildcard ==
    InstanceCallDone("expand_instances") =>
        \A unit \in {"app", "data"} :
            LET emitted == [k \in DOMAIN YieldedFor(unit) |-> YieldedFor(unit)[k][3]]
                given == IF call.single_instances THEN GivenSeq(unit)
                         ELSE DistinctInOrder(GivenSeq(unit))
                declared == DeclaredOf(unit)
            IN /\ \A k \in DOMAIN YieldedFor(unit) :
                      /\ Len(YieldedFor(unit)[k]) = 3
                      /\ YieldedFor(unit)[k][1] = "m"
                      /\ YieldedFor(unit)[k][3] \in GivenInstances
               /\ (None \in Range(given) /\ declared # <<>>) => emitted = declared
               /\ (None \in Range(given) /\ declared = <<>>) => emitted = given
               /\ None \notin Range(given) => emitted = given

(* Witness of C10: a wildcard for app, which declares two instances, and a
   wildcard for data, which declares none, have both been expanded. *)
C10_Witness ==
    /\ InstanceCallDone("expand_instances")
    /\ result.exc = "none"
    /\ Len(DeclaredOf("app")) = 2
    /\ GivenSeq("app") = <<None>>
    /\ GivenSeq("data") = <<None>>
    /\ result.yielded = << <<"m", "app", DeclaredOf("app")[1]>>,
                           <<"m", "app", DeclaredOf("app")[2]>>,
                           <<"m", "data", None>> >>

EmittedFor(unit) == [k \in DOMAIN YieldedFor(unit) |-> YieldedFor(unit)[k][3]]

(* The call gives the unit an instance set: no name is written twice. *)
GivenIsSet(unit) ==
    /\ GivenAddrs(unit) # <<>>
    /\ Len(GivenSeq(unit)) = Cardinality(GivenSet(unit))

StrictSubsetGiven(unit) ==
    /\ GivenSet(unit) \subseteq Range(DeclaredOf(unit))
    /\ GivenSet(unit) # Range(DeclaredOf(unit))

FullOrWildcardGiven(unit) ==
    None \in GivenSet(unit) \/ GivenSet(unit) = Range(DeclaredOf(unit))

(* C11 as claimed: group_instances followed by expand_instances gives back
   the given instances of a unit when they are a strict subset of the
   declared ones, and the unit's declared instance list when they are all
   declared instances or contain the wildcard. *)
C11_RoundTripDeclaredList ==
    (InstanceCallDone("group_then_expand") /\ result.exc = "none") =>
        \A unit \in {"app", "data"} : GivenIsSet(unit) =>
            /\ StrictSubsetGiven(unit) => EmittedFor(unit) = GivenSeq(unit)
            /\ FullOrWildcardGiven(unit) => EmittedFor(unit) = DeclaredOf(unit)

(* C11 as amended: the declared instance list comes back for a full or
   wildcard set only of a unit that declares instances; the set given for a
   unit without declared instances comes back as given, wildcard included. *)
C11_RoundTripIfUnitDeclaresInstances ==
    (InstanceCallDone("group_then_expand") /\ result.exc = "none") =>
        \A unit \in {"app", "data"} : GivenIsSet(unit) =>
            /\ StrictSubsetGiven(unit) => EmittedFor(unit) = GivenSeq(unit)
            /\ (FullOrWildcardGiven(unit) /\ DeclaredOf(unit) # <<>>) =>
                   EmittedFor(unit) = DeclaredOf(unit)
            /\ DeclaredOf(unit) = <<>> => EmittedFor(unit) = GivenSeq(unit)

(* Witness of C11: app declares two instances; both were given, in the
   other order, and the declared list came back. *)
C11_Witness ==
    /\ InstanceCallDone("group_then_expand")
    /\ result.exc = "none"
    /\ Len(DeclaredOf("app")) = 2
    /\ GivenSeq("app") = Reverse(DeclaredOf("app"))
    /\ EmittedFor("app") = DeclaredOf("app")

(* The units the call names that are on no map. *)
GivenMissing ==
    {call.config_ids[k][2] : k \in DOMAIN call.config_ids}
        \ {kv[1] : kv \in Range(container_maps["m"].containers)}

(* C12: group_instances and expand_instances end in a KeyError that holds
   the map name and the unit name whenever an address of the call names a
   unit the map does not have, and nothing is yielded for such a unit. *)
C12_MissingUnitRaisesKeyError ==
    ((InstanceCallDone("group_instances") \/ InstanceCallDone("expand_instances"))
        /\ GivenMissing # {}) =>
        /\ result.exc = "KeyError"
        /\ Len(result.key) = 2
        /\ result.key[1] = "m"
        /\ result.key[2] \in GivenMissing
        /\ \A k \in DOMAIN result.yielded : result.yielded[k][2] \notin GivenMissing

(* Witness of C12: expand_instances has yielded the address of app and has
   then failed on ghost. *)
C12_Witness ==
    /\ InstanceCallDone("expand_instances")
    /\ call.config_ids = << <<"m", "ghost", None>>, <<"m", "app", "1">> >>
    /\ result = Outcome(<< <<"m", "app", "1">> >>, "KeyError", <<"m", "ghost">>)

(* --------------------- claims on the dependency items ------------------ *)
DependencyItemsDone(reverse) ==
    pc = "done" /\ call.op = "dependency_items" /\ call.reverse = reverse

(* The non-abstract units of map m, in the order the map lists them. *)
ListedUnits ==
    LET listed == SelectSeq(container_maps["m"].containers, LAMBDA kv : ~kv[2].abstract)
    IN [k \in DOMAIN listed |-> listed[k][1]]

UnitConfig(unit) ==
    LET found == {kv \in Range(container_maps["m"].containers) : kv[1] = unit}
    IN (CHOOSE kv \in found : TRUE)[2]

ParentNaming == container_maps["m"].use_attached_parent_name

AliasOwners(alias) == {u \in Range(ListedUnits) : alias \in Range(UnitConfig(u).attaches)}

Suffix(v) == IF Len(v) > 1 THEN v[2] ELSE None

(* What a uses entry refers to: <<unit, instance>>.  With alias_suffix the
   suffix of a name under attached-parent-naming counts as an alias, not
   an instance, when the named unit attaches it. *)
UsedAddress(v, alias_suffix) ==
    IF ~ParentNaming /\ AliasOwners(v[1]) # {}
    THEN <<CHOOSE u \in AliasOwners(v[1]) : TRUE, None>>
    ELSE IF ParentNaming /\ alias_suffix /\ Len(v) > 1 /\ v[1] \in AliasOwners(v[2])
    THEN <<v[1], None>>
    ELSE <<v[1], Suffix(v)>>

ReferredAddresses(unit, alias_suffix) ==
    LET config == UnitConfig(unit)
    IN {UsedAddress(config.uses[k].volume, alias_suffix) : k \in DOMAIN config.uses}
       \cup {<<config.links[k].container[1], Suffix(config.links[k].container)>>
                : k \in DOMAIN config.links}
       \cup (IF config.network.is_tuple
             THEN {<<config.network.c, config.network.i>>} ELSE {})

(* Group over a set of <<unit, instance>>: per unit the set of instances,
   or the wildcard alone. *)
Collapsed(addresses) ==
    {<<t, LET given == {a[2] : a \in {b \in addresses : b[1] = t}}
              declared == UnitConfig(t).instances
          IN IF declared # <<>> /\ (None \in given \/ Cardinality(given) = Len(declared))
             THEN {None} ELSE given>>
        : t \in {a[1] : a \in addresses}}

YieldedDependencies(k) ==
    {<<x[2], Range(x[3])>> : x \in result.yielded[k][2]}

ForwardItemsAre(alias_suffix) ==
    /\ \A k \in DOMAIN result.yielded :
           /\ k <= Len(ListedUnits)
           /\ result.yielded[k][1] = <<"m", ListedUnits[k]>>
           /\ \A x \in result.yielded[k][2] : x[1] = "m"
           /\ YieldedDependencies(k) = Collapsed(ReferredAddresses(ListedUnits[k], alias_suffix))
    /\ result.exc = "none" => Len(result.yielded) = Len(ListedUnits)

(* C6 as stated: the forward edge iterator yields, for every non-abstract
   unit in turn, one entry keyed by (map, unit) whose set is the Group
   collapse of the addresses of its uses, links and network mode; a uses
   entry is the alias owner without attached-parent-naming and otherwise
   the named unit with its suffix as instance. *)
C6_ForwardItemsLiteralSuffix == DependencyItemsDone(FALSE) => ForwardItemsAre(FALSE)

(* C6, amended: as above, but under attached-parent-naming a suffix that is
   an alias the named unit attaches refers to the unit without instance. *)
C6_ForwardItemsAliasSuffix == DependencyItemsDone(FALSE) => ForwardItemsAre(TRUE)

C6_Witness ==
    /\ DependencyItemsDone(FALSE)
    /\ result.exc = "none"
    /\ ParentNaming
    /\ \E k \in DOMAIN UnitConfig("web").uses :
           UnitConfig("web").uses[k].volume = <<"data", "vol">>
    /\ "vol" \in Range(UnitConfig("data").attaches)
    /\ UnitConfig("data").instances # <<>>
    /\ <<"m", "data", <<None>>>> \in result.yielded[3][2]

(* The <<referencing unit, missing unit>> pairs of the map. *)
DanglingPairs ==
    UNION {{<<u, a[1]>> : a \in {b \in ReferredAddresses(u, FALSE) :
                                    b[1] \notin Range(ListedUnits)}}
              : u \in Range(ListedUnits)}

(* C7: a forward run over a map with a reference to a unit that does not
   exist ends in a KeyError that names the referencing and the missing
   unit, with attached-parent-naming on or off. *)
C7_DanglingRaisesKeyError ==
    (DependencyItemsDone(FALSE) /\ DanglingPairs # {}) =>
        /\ result.exc = "KeyError"
        /\ <<result.key[4], result.key[2]>> \in DanglingPairs

PolicyKeys == {<<"m", u>> : u \in Range(ListedUnits)}

ForwardEdge(a, b) ==
    /\ a \in DOMAIN policy._f_resolver
    /\ \E x \in policy._f_resolver[a] : get_map_config(x) = b

ReverseEdge(b, a) ==
    /\ b \in DOMAIN policy._r_resolver
    /\ \E x \in policy._r_resolver[b] : get_map_config(x) = a

(* C5: in a constructed policy the reverse adjacency has an edge from B to
   A exactly when the forward adjacency has an edge from A to B, both
   compared as (map, unit) pairs. *)
C5_ReverseIsInverseOfForward ==
    (pc = "done" /\ policy.built) =>
        /\ DOMAIN policy._r_resolver \subseteq PolicyKeys
        /\ \A a \in PolicyKeys, b \in PolicyKeys : ForwardEdge(a, b) <=> ReverseEdge(b, a)

C5_Witness ==
    /\ pc = "done" /\ policy.built
    /\ UnitConfig("web").network.is_tuple
    /\ UnitConfig("web").links = <<>> /\ UnitConfig("web").uses # <<>>
    /\ ForwardEdge(<<"m", "web">>, <<"m", "data">>)
    /\ ForwardEdge(<<"m", "web">>, <<"m", "app">>)
    /\ ReverseEdge(<<"m", "data">>, <<"m", "web">>)

(* ---------------- claims on the resolvers and the generators ----------- *)
(* The units a unit refers to, and the units reachable over references,
   computed from the configurations of the map. *)
DependsOn(unit) ==
    IF unit \in Range(ListedUnits) THEN {a[1] : a \in ReferredAddresses(unit, TRUE)} ELSE {}

RECURSIVE Closure(_, _)
Closure(units, n) ==
    IF n = 0 THEN units
    ELSE Closure(units \cup UNION {DependsOn(u) : u \in units}, n - 1)

Reachable(unit) == Closure(DependsOn(unit), Len(ListedUnits))

Acyclic == \A u \in Range(ListedUnits) : u \notin Reachable(u)

Dependents(unit) == {u \in Range(ListedUnits) : unit \in Reachable(u)}

(* C4: on an acyclic graph the forward resolver's list for A, which
   get_dependencies hands out reversed, holds exactly the units reachable
   from A, each once, and no entry that comes before another entry is
   reachable from that other entry. *)
C4_ResolverListsClosureInOrder ==
    (pc = "done" /\ call.op = "get_dependencies" /\ Acyclic) =>
        /\ result.exc = "none"
        /\ LET resolved == Reversed(result.yielded)
           IN /\ \A k \in DOMAIN resolved : resolved[k][1] = "m"
              /\ {resolved[k][2] : k \in DOMAIN resolved} = Reachable(call.args[2])
              /\ Len(resolved) = Cardinality(Reachable(call.args[2]))
              /\ \A i \in DOMAIN resolved, j \in DOMAIN resolved :
                     i < j => resolved[i][2] \notin Reachable(resolved[j][2])

C4_Witness ==
    /\ pc = "done" /\ call.op = "get_dependencies" /\ Acyclic
    /\ call.args[2] = "web"
    /\ DependsOn("web") = {"app", "db"}
    /\ DependsOn("app") = {"db"}
    /\ Len(result.yielded) = 2
    /\ result.yielded[1][2] = "db"

GetStatesDone(generator) ==
    pc = "done" /\ call.op = "get_states" /\ call.generator = generator

Requests == {call.config_ids[k][3] : k \in DOMAIN call.config_ids}

ReportsFor(unit) == {k \in DOMAIN result.yielded : result.yielded[k].config_name = unit}

(* Reports for both units exist and every report for first comes strictly
   before every report for second. *)
ReportedBefore(first, second) ==
    /\ ReportsFor(first) # {}
    /\ ReportsFor(second) # {}
    /\ \A i \in ReportsFor(first), j \in ReportsFor(second) : i < j

(* C1: the forward generator reports every unit D in the dependency
   closure of a requested unit R, and R itself, and every report for D
   comes strictly before every report for R. *)
C1_DependenciesReportedBeforeRequested ==
    (GetStatesDone("DependencyStateGenerator") /\ Acyclic) =>
        \A r \in Requests : \A d \in Reachable(r) : ReportedBefore(d, r)

(* C2: the reverse generator reports every unit U that depends on a
   requested unit R, and R itself, and every report for U comes strictly
   before every report for R. *)
C2_DependentsReportedBeforeRequested ==
    (GetStatesDone("DependentStateGenerator") /\ Acyclic) =>
        \A r \in Requests : \A u \in Dependents(r) : ReportedBefore(u, r)

(* ----------------------- claims on the extension ----------------------- *)
GetExtendedDone == pc = "done" /\ call.op = "get_extended"

ExtendedTwiceDone == pc = "done" /\ call.op = "get_extended_map_twice"

RawMap == container_maps["m"]

UnitNames(c_map) == {kv[1] : kv \in Range(c_map.containers)}

(* C13: when get_extended_map succeeds on a map, get_extended_map on its
   result succeeds as well and yields a map flagged as extended with the
   same units and, for every unit, the same configuration as the first
   result. *)
C13_ExtendedMapIdempotent ==
    (ExtendedTwiceDone /\ result.yielded # <<>>) =>
        /\ result.exc = "none"
        /\ Len(result.yielded) = 2
        /\ result.yielded[2].extended
        /\ UnitNames(result.yielded[2]) = UnitNames(result.yielded[1])
        /\ result.yielded[2].containers = result.yielded[1].containers

(* The first map flattened a unit with two parents, one of them abstract
   and so not a unit of the extended map; the second map exists. *)
C13_Witness ==
    /\ ExtendedTwiceDone
    /\ Len(result.yielded) = 2
    /\ \E kv \in Range(RawMap.containers) :
           /\ kv[1] = "web"
           /\ kv[2].extends = <<"base", "app">>
    /\ "base" \notin UnitNames(result.yielded[1])
    /\ \E kv \in Range(result.yielded[1].containers) :
           /\ kv[1] = "web"
           /\ Len(kv[2].links) = 3

RawConfig(unit) == (CHOOSE kv \in Range(RawMap.containers) : kv[1] = unit)[2]

(* The units whose attributes reach a unit, ancestors first: for every
   parent in listed order its own lineage, then the unit itself. *)
RECURSIVE Lineage(_)
Lineage(unit) ==
    Flatten([k \in DOMAIN RawConfig(unit).extends |->
                Lineage(RawConfig(unit).extends[k])]) \o <<unit>>

LineageLinks(unit) ==
    Flatten([k \in DOMAIN Lineage(unit) |-> RawConfig(Lineage(unit)[k]).links])

(* The image set latest in the lineage, or none. *)
LineageImage(unit) ==
    LET imaged == {k \in DOMAIN Lineage(unit) : RawConfig(Lineage(unit)[k]).image # {}}
    IN IF imaged = {} THEN {}
       ELSE RawConfig(Lineage(unit)[CHOOSE k \in imaged : \A j \in imaged : j <= k]).image

(* C14: get_extended of a unit with parents returns a configuration whose
   list attributes are those of its lineage in depth-first, left-to-right
   order with its own items last, whose scalar attributes are those set
   latest in that order, and whose own scalar values, where set, win over
   every ancestor's. *)
C14_ParentsMergedInOrderOwnLast ==
    (GetExtendedDone /\ result.exc = "none"
                     /\ RawConfig(call.config_name).extends # <<>>) =>
        /\ result.yielded[1].links = LineageLinks(call.config_name)
        /\ result.yielded[1].image = LineageImage(call.config_name)
        /\ RawConfig(call.config_name).image # {} =>
               result.yielded[1].image = RawConfig(call.config_name).image
        /\ result.yielded[1].abstract = RawConfig(call.config_name).abstract

(* web extends app and base, which both set an image while web sets
   none: the image is the later parent's, the links are app's, base's and
   web's own, in this order. *)
C14_Witness ==
    /\ GetExtendedDone
    /\ call.config_name = "web"
    /\ result.exc = "none"
    /\ RawConfig("web").extends = <<"app", "base">>
    /\ RawConfig("app").extends = <<>>
    /\ RawConfig("web").image = {}
    /\ RawConfig("app").image = OwnImage("app")
    /\ result.yielded[1].image = OwnImage("base")
    /\ result.yielded[1].links = <<OwnLink("app"), OwnLink("base"), OwnLink("web")>>

ExtendsOf(unit) ==
    IF unit \in UnitNames(RawMap) THEN Range(RawConfig(unit).extends) ELSE {}

RECURSIVE Ancestors(_, _)
Ancestors(units, steps) ==
    IF steps = 0 THEN units
    ELSE Ancestors(units \cup UNION {ExtendsOf(u) : u \in units}, steps - 1)

(* The unit is among its own ancestors. *)
OnExtendsCycle(unit) ==
    unit \in Ancestors(ExtendsOf(unit), Cardinality(UnitNames(RawMap)))

(* C15: get_extended on a unit of an extends cycle ends in an error of
   get_extended's own that names a unit of the cycle, not in the
   interpreter's recursion limit. *)
C15_CycleRaisesGuardError ==
    (GetExtendedDone /\ OnExtendsCycle(call.config_name)) =>
        /\ result.exc \notin {"none", "RecursionError"}
        /\ \E unit \in Range(result.key) : OnExtendsCycle(unit)

(* --------------------- claims on the integrity check ------------------- *)
CheckDone == pc = "done" /\ call.op = "check_integrity"

CheckedMap == container_maps["m"]

CheckedUnits == {kv[1] : kv \in {x \in Range(CheckedMap.containers) : ~x[2].abstract}}

CheckedConfig(unit) == (CHOOSE kv \in Range(CheckedMap.containers) : kv[1] = unit)[2]

(* The declared unit instances: unit.instance for every declared
   instance, the unit name for a unit that declares none. *)
InstancesOf(unit) ==
    IF CheckedConfig(unit).instances = <<>> THEN {<<unit>>}
    ELSE {<<unit, i>> : i \in Range(CheckedConfig(unit).instances)}

DeclaredInstances == UNION {InstancesOf(unit) : unit \in CheckedUnits}

(* What a group may refer to: a unit or a declared instance of it. *)
GroupReferable == DeclaredInstances \cup {<<unit>> : unit \in CheckedUnits}

SharesVolume(unit) ==
    \/ CheckedConfig(unit).shares # <<>>
    \/ CheckedConfig(unit).binds # <<>>
    \/ CheckedConfig(unit).uses # <<>>

SharingInstances == UNION {InstancesOf(unit) : unit \in {u \in CheckedUnits : SharesVolume(u)}}

(* Every single declaration of an attached volume: unit, position, alias. *)
AttachDeclarations ==
    UNION {{<<unit, k, CheckedConfig(unit).attaches[k]>> :
               k \in DOMAIN CheckedConfig(unit).attaches} : unit \in CheckedUnits}

(* The name under which a declared attached volume is known in the map. *)
AttachedName(decl) ==
    IF CheckedMap.use_attached_parent_name THEN <<decl[1], decl[3]>> ELSE <<decl[3]>>

AttachedNames == {AttachedName(decl) : decl \in AttachDeclarations}

BindAliases ==
    UNION {{b.volume : b \in {x \in Range(CheckedConfig(unit).binds) : ~x.is_tuple}} :
              unit \in CheckedUnits}

UsesTargets == UNION {{u.volume : u \in Range(CheckedConfig(unit).uses)} : unit \in CheckedUnits}

LinkTargets == UNION {{l.container : l \in Range(CheckedConfig(unit).links)} : unit \in CheckedUnits}

NetworkReferences ==
    {IF CheckedConfig(unit).network.i = None THEN <<CheckedConfig(unit).network.c>>
     ELSE <<CheckedConfig(unit).network.c, CheckedConfig(unit).network.i>> :
         unit \in {u \in CheckedUnits : CheckedConfig(u).network.is_tuple}}

NameCollisions == {g[1] : g \in Range(CheckedMap.groups)} \cap GroupReferable

UnresolvedGroupReferences ==
    UNION {Range(g[2]) : g \in Range(CheckedMap.groups)} \ GroupReferable

DuplicateAttachments ==
    {name \in AttachedNames :
        Cardinality({decl \in AttachDeclarations : AttachedName(decl) = name})
            + (IF name \in SharingInstances THEN 1 ELSE 0) > 1}

UnresolvedUses == UsesTargets \ (SharingInstances \cup AttachedNames)

UnboundHostAliases == BindAliases \ {<<alias>> : alias \in CheckedMap.host}

UnassignedVolumes ==
    (BindAliases \cup {<<decl[3]>> : decl \in AttachDeclarations})
        \ {<<alias>> : alias \in CheckedMap.volumes}

UnresolvedLinks == LinkTargets \ DeclaredInstances

UnresolvedNetworks == NetworkReferences \ DeclaredInstances

(* The identifiers that fail each check, in the order of the checks in
   check_integrity: the link targets and the network references are two
   checks. *)
Checks ==
    << NameCollisions,
       UnresolvedGroupReferences,
       IF call.check_duplicates THEN DuplicateAttachments ELSE {},
       UnresolvedUses,
       UnboundHostAliases,
       UnassignedVolumes,
       UnresolvedLinks,
       UnresolvedNetworks >>

CheckTexts ==
    << "Names are used both for container configurations (or instances) and for container groups",
       "Container configurations or certain instances are referenced by groups, but are not defined",
       "Duplicated attached volumes found with name(s)",
       "No shared or attached volumes found for used volume(s)",
       "No host share found for mapped volume(s)",
       "No volume name-path-assignments found for volume(s)",
       "No container instance found for link(s)",
       "No container instance found for the following network reference(s)" >>

(* The seven rules: the link targets and the network references are one
   rule, violated by the identifiers that fail either check. *)
Rules(checks) ==
    [k \in 1..7 |-> IF k < 7 THEN checks[k] ELSE checks[7] \cup checks[8]]

RuleTexts == [k \in 1..7 |-> IF k < 7 THEN {CheckTexts[k]} ELSE {CheckTexts[7], CheckTexts[8]}]

Violated(violations) == {k \in DOMAIN violations : violations[k] # {}}

Earliest(rules) == CHOOSE k \in rules : \A j \in rules : k <= j

(* C16, as stated: a map that violates rules is rejected with the
   MapIntegrityError of the earliest violated of the seven rules, and the
   message names exactly the identifiers that violate this rule. *)
C16_EarliestRuleNamesEveryViolator ==
    CheckDone =>
        LET violations == Rules(Checks)
        IN Violated(violations) # {} =>
               /\ result.exc = "MapIntegrityError"
               /\ result.text \in RuleTexts[Earliest(Violated(violations))]
               /\ result.names = violations[Earliest(Violated(violations))]

(* C16, amended: a map that fails checks is rejected with the
   MapIntegrityError of the earliest failed of the eight checks, link
   targets before network references, and the message names exactly the
   identifiers that fail this check; a map that fails none is accepted. *)
C16_EarliestCheckNamesEveryViolator ==
    CheckDone =>
        LET violations == Checks
        IN IF Violated(violations) # {}
           THEN /\ result.exc = "MapIntegrityError"
                /\ result.text = CheckTexts[Earliest(Violated(violations))]
                /\ result.names = violations[Earliest(Violated(violations))]
           ELSE result.exc = "none"

(* A group refers to two names that are not declared, and a link target
   and the network reference of web are unresolved as well: the error is
   that of the group references and names both. *)
C16_Witness ==
    /\ CheckDone
    /\ {2, 7, 8} \subseteq Violated(Checks)
    /\ result.exc = "MapIntegrityError"
    /\ result.text = CheckTexts[2]
    /\ result.names = {<<"ghost">>, <<"web", "1">>}

EarlierChecksPass(check) ==
    LET checks == Checks IN \A k \in 1..(check - 1) : checks[k] = {}

(* C17: an accepted map has no uses target that is neither a declared
   instance of a unit that shares a volume nor the name of an attached
   volume; a map with such targets is rejected, and by the error of the
   missing shares, which names exactly these targets, when no earlier
   check fails.  That error is raised for no other targets. *)
C17_UsesTargetsResolve ==
    CheckDone =>
        /\ UnresolvedUses # {} => result.exc = "MapIntegrityError"
        /\ (UnresolvedUses # {} /\ EarlierChecksPass(4)) =>
               /\ result.text = CheckTexts[4]
               /\ result.names = UnresolvedUses
        /\ result.text = CheckTexts[4] => result.names = UnresolvedUses

(* web uses vol and nothing else is wrong with the map, attached volumes
   under their plain names: while data attaches vol the map is accepted,
   while no unit attaches it the error names vol. *)
C17_WebUsesVol ==
    /\ CheckDone
    /\ ~CheckedMap.use_attached_parent_name
    /\ UsesTargets = {<<"vol">>}
    /\ \A k \in {1, 2, 3, 5, 6, 7, 8} : Checks[k] = {}

C17_Witness ==
    /\ C17_WebUsesVol
    /\ CheckedConfig("data").attaches = <<>>
    /\ CheckedConfig("web").attaches = <<>>
    /\ result = MapIntegrityError(CheckTexts[4], {<<"vol">>})

C17_WitnessAccepted ==
    /\ C17_WebUsesVol
    /\ CheckedConfig("data").attaches = <<"vol">>
    /\ result.exc = "none"

UnresolvedReferences == UnresolvedLinks \cup UnresolvedNetworks

(* C18, as stated: an accepted map has no link target and no network
   reference that is not a declared unit instance; a map with such
   references is rejected, and when no earlier rule is violated the error
   names exactly the unresolved references. *)
C18_UnresolvedReferencesNamed ==
    CheckDone =>
        /\ UnresolvedReferences # {} => result.exc = "MapIntegrityError"
        /\ (UnresolvedReferences # {} /\ EarlierChecksPass(7)) =>
               result.names = UnresolvedReferences

(* C18, amended: an accepted map has no link target and no network
   reference that is not a declared unit instance; a map with such
   references is rejected, and when no earlier check fails the error names
   exactly the unresolved link targets if there are any, and exactly the
   unresolved network references otherwise. *)
C18_UnresolvedLinksThenNetworksNamed ==
    CheckDone =>
        /\ UnresolvedReferences # {} => result.exc = "MapIntegrityError"
        /\ (UnresolvedLinks # {} /\ EarlierChecksPass(7)) =>
               result = MapIntegrityError(CheckTexts[7], UnresolvedLinks)
        /\ (UnresolvedNetworks # {} /\ EarlierChecksPass(8)) =>
               result = MapIntegrityError(CheckTexts[8], UnresolvedNetworks)

(* All links of web resolve, its network reference does not, and nothing
   else is wrong with the map: the error names the network reference. *)
C18_Witness ==
    /\ CheckDone
    /\ LinkTargets = {<<"data">>}
    /\ EarlierChecksPass(8)
    /\ result = MapIntegrityError(CheckTexts[8], {<<"ghost">>})

(* The aliases that are declared as attached volume more than once,
   by one unit or by several. *)
RepeatedAliases ==
    {decl[3] : decl \in {d1 \in AttachDeclarations :
                            \E d2 \in AttachDeclarations : d2 # d1 /\ d2[3] = d1[3]}}

(* C19, as stated: with check_duplicates a map in which an alias is
   attached more than once is rejected, by the error of the duplicates
   naming every such alias when no earlier check fails; without
   check_duplicates that error is never raised. *)
C19_RepeatedAliasRejected ==
    CheckDone =>
        /\ (call.check_duplicates /\ RepeatedAliases # {} /\ EarlierChecksPass(3)) =>
               /\ result.text = CheckTexts[3]
               /\ \A alias \in RepeatedAliases :
                      \E name \in result.names : name[Len(name)] = alias
        /\ ~call.check_duplicates => result.text # CheckTexts[3]

(* C19, amended: with check_duplicates a map in which two attached
   volumes have the same name (the alias, or unit.alias when the map
   includes the parent name) is rejected, by the error of the duplicates
   naming exactly these names when no earlier check fails; the error is
   raised for nothing else, and never without check_duplicates. *)
C19_DuplicateNamesRejected ==
    CheckDone =>
        /\ (call.check_duplicates /\ DuplicateAttachments # {} /\ EarlierChecksPass(3)) =>
               result = MapIntegrityError(CheckTexts[3], DuplicateAttachments)
        /\ result.text = CheckTexts[3] =>
               call.check_duplicates /\ result.names = DuplicateAttachments
        /\ CheckedMap.use_attached_parent_name =>
               DuplicateAttachments =
                   {<<d1[1], d1[3]>> : d1 \in {d \in AttachDeclarations :
                       \E d2 \in AttachDeclarations :
                           d2[1] = d[1] /\ d2[2] # d[2] /\ d2[3] = d[3]}}
        /\ ~CheckedMap.use_attached_parent_name =>
               {<<alias>> : alias \in RepeatedAliases} \subseteq DuplicateAttachments

(* data and web both attach vol in a map that includes the parent name,
   and nothing else is wrong with it: the map is accepted with
   check_duplicates. *)
C19_Witness ==
    /\ CheckDone
    /\ call.check_duplicates
    /\ CheckedMap.use_attached_parent_name
    /\ CheckedConfig("data").attaches = <<"vol">>
    /\ CheckedConfig("web").attaches = <<"vol">>
    /\ result.exc = "none"

(* The same two declarations under plain names: rejected naming vol with
   check_duplicates, accepted without. *)
C19_WitnessPlainNames ==
    /\ CheckDone
    /\ ~CheckedMap.use_attached_parent_name
    /\ CheckedConfig("data").attaches = <<"vol">>
    /\ CheckedConfig("web").attaches = <<"vol">>
    /\ \/ call.check_duplicates /\ result = MapIntegrityError(CheckTexts[3], {<<"vol">>})
       \/ ~call.check_duplicates /\ result.exc = "none"

(* ---------------------- claims on the container state ------------------ *)
ContainerStateDone == pc = "done" /\ call.op = "get_state"

Inspected == call.self.detail.State

(* The flags of the classification; OUTDATED is the caller's mark. *)
ClassificationFlags == result[2] \ {STATE_FLAG_OUTDATED}

NeverStarted == Inspected.StartedAt = INITIAL_START_TIME

ExitedNonRecoverable == Inspected.ExitCode \in call.self.options.nonrecoverable_exit_codes

RestartingFlag == IF Inspected.Restarting THEN {STATE_FLAG_RESTARTING} ELSE {}

(* C20, as stated: a container that is not found is ABSENT, a running one
   is RUNNING without a flag of the classification, any other is PRESENT
   with INITIAL if and only if it never started, NONRECOVERABLE if and
   only if its exit code is among the configured ones, and RESTARTING if
   and only if a restart is pending. *)
C20_FlagsIndependent ==
    ContainerStateDone =>
        IF call.self.detail = NOT_FOUND THEN result[1] = STATE_ABSENT
        ELSE IF Inspected.Running
        THEN result[1] = STATE_RUNNING /\ ClassificationFlags = {}
        ELSE /\ result[1] = STATE_PRESENT
             /\ ClassificationFlags =
                    (IF NeverStarted THEN {STATE_FLAG_INITIAL} ELSE {})
                    \cup (IF ExitedNonRecoverable THEN {STATE_FLAG_NONRECOVERABLE} ELSE {})
                    \cup RestartingFlag

(* C20, amended: as above, but a present container that never started is
   INITIAL and not NONRECOVERABLE, whatever its exit code. *)
C20_InitialBeforeNonRecoverable ==
    ContainerStateDone =>
        IF call.self.detail = NOT_FOUND THEN result[1] = STATE_ABSENT /\ result[2] = {}
        ELSE IF Inspected.Running
        THEN result[1] = STATE_RUNNING /\ ClassificationFlags = {}
        ELSE /\ result[1] = STATE_PRESENT
             /\ ClassificationFlags =
                    (IF NeverStarted THEN {STATE_FLAG_INITIAL}
                     ELSE IF ExitedNonRecoverable THEN {STATE_FLAG_NONRECOVERABLE}
                     ELSE {})
                    \cup RestartingFlag

(* A container that never started, with a non-recoverable exit code of
   the default options and a pending restart: PRESENT, INITIAL and
   RESTARTING. *)
C20_Witness ==
    /\ ContainerStateDone
    /\ call.self.detail # NOT_FOUND
    /\ ~Inspected.Running
    /\ NeverStarted
    /\ Inspected.ExitCode = -1
    /\ call.self.options.nonrecoverable_exit_codes = nonrecoverable_exit_codes
    /\ Inspected.Restarting
    /\ result[1] = STATE_PRESENT
    /\ ClassificationFlags = {STATE_FLAG_INITIAL, STATE_FLAG_RESTARTING}

NetworkStateDone == pc = "done" /\ call.op = "network_get_state"

(* The address of the inspected object is among the caller's selection. *)
ForceUpdateSelected ==
    IF ContainerStateDone
    THEN <<ITEM_TYPE_CONTAINER, call.self.map_name, call.self.config_name,
           call.self.instance_name>> \in call.self.options.force_update
    ELSE <<ITEM_TYPE_NETWORK, call.self.map_name, call.self.config_name, None>>
             \in call.self.options.force_update

(* C21, as stated: the report of a container or a network carries
   OUTDATED if and only if its address is among the force-update
   selection of the caller, whatever the base state. *)
C21_OutdatedWheneverSelected ==
    (ContainerStateDone \/ NetworkStateDone) =>
        (STATE_FLAG_OUTDATED \in result[2] <=> ForceUpdateSelected)

(* C21, amended: the report of a container or a network carries OUTDATED
   if and only if its address is among the selection and the object was
   found; the report of an absent object never carries it. *)
C21_OutdatedWheneverSelectedAndFound ==
    (ContainerStateDone \/ NetworkStateDone) =>
        (STATE_FLAG_OUTDATED \in result[2] <=>
            (ForceUpdateSelected /\ result[1] # STATE_ABSENT))

(* A selected container that was not found: ABSENT without OUTDATED. *)
C21_Witness ==
    /\ ContainerStateDone
    /\ ForceUpdateSelected
    /\ call.self.detail = NOT_FOUND
    /\ result = <<STATE_ABSENT, {}, <<>>>>

(* Selected objects that were found carry the flag: a running container,
   a present network. *)
C21_WitnessFound ==
    /\ ContainerStateDone \/ NetworkStateDone
    /\ ForceUpdateSelected
    /\ \/ ContainerStateDone /\ result = <<STATE_RUNNING, {STATE_FLAG_OUTDATED}, <<>>>>
       \/ NetworkStateDone /\ result = <<STATE_PRESENT, {STATE_FLAG_OUTDATED}, <<>>>>

InspectDone == pc = "done" /\ call.op = "inspect"

(* The runtime name of the inspected object: what inspect computed for a
   container or an attached volume, map.network-name for a network. *)
ComputedName ==
    IF call.kind = ITEM_TYPE_NETWORK
    THEN <<call.self.map_name, call.self.config_name>>
    ELSE result.name

(* C25: an object whose computed runtime name is not among the names the
   client knows is reported as ABSENT with no flags, without an exception
   and without a call of the client's inspect. *)
C25_UnknownNameReportedAbsent ==
    (InspectDone /\ ComputedName \notin call.known) =>
        /\ result.exc = "none"
        /\ result.state = <<STATE_ABSENT, {}, <<>>>>
        /\ result.calls = <<>>

(* ------------------ claims on the names of the objects ----------------- *)
(* The objects of the checked map that get a runtime name: every declared
   instance of a unit, or the unit itself where none is declared, and
   every declared attached volume. *)
ContainerObjects ==
    UNION {{<<"container", unit, i>> :
               i \in IF CheckedConfig(unit).instances = <<>> THEN {None}
                     ELSE Range(CheckedConfig(unit).instances)} :
           unit \in CheckedUnits}

AttachedObjects == {<<"attached", decl[1], decl[3], decl[2]>> : decl \in AttachDeclarations}

(* The name inspect computes for an object. *)
RuntimeName(object) ==
    IF object[1] = "container"
    THEN cname(CheckedMap.name, object[2], object[3])
    ELSE aname(CheckedMap.name, object[3],
               IF CheckedMap.use_attached_parent_name THEN object[2] ELSE None)

(* C29: in a map that check_integrity with the duplicate check accepts,
   no two objects get the same runtime name. *)
C29_RuntimeNamesDistinct ==
    (CheckDone /\ call.check_duplicates /\ result.exc = "none") =>
        \A o1 \in ContainerObjects \cup AttachedObjects,
           o2 \in ContainerObjects \cup AttachedObjects :
            o1 # o2 => RuntimeName(o1) # RuntimeName(o2)

(* ---------------------- claims on the state reports -------------------- *)
(* The state report the call has made, if it has made one. *)
StateReports ==
    IF ContainerStateDone \/ NetworkStateDone THEN {result}
    ELSE IF InspectDone /\ result.exc = "none" THEN {result.state}
    ELSE {}

NetworkReport ==
    NetworkStateDone \/ (InspectDone /\ call.kind = ITEM_TYPE_NETWORK)

(* C30: every state report has one of the base states ABSENT, PRESENT and
   RUNNING; INITIAL, NONRECOVERABLE and RESTARTING occur with PRESENT only;
   INITIAL and NONRECOVERABLE never occur together; the report of a network
   is never RUNNING and has no flag but OUTDATED. *)
C30_ReportsWellFormed ==
    \A report \in StateReports :
        /\ report[1] \in {STATE_ABSENT, STATE_PRESENT, STATE_RUNNING}
        /\ report[2] \subseteq {STATE_FLAG_INITIAL, STATE_FLAG_RESTARTING,
                                STATE_FLAG_NONRECOVERABLE, STATE_FLAG_OUTDATED}
        /\ report[2] \cap {STATE_FLAG_INITIAL, STATE_FLAG_NONRECOVERABLE,
                           STATE_FLAG_RESTARTING} # {} => report[1] = STATE_PRESENT
        /\ ~({STATE_FLAG_INITIAL, STATE_FLAG_NONRECOVERABLE} \subseteq report[2])
        /\ NetworkReport =>
               /\ report[1] # STATE_RUNNING
               /\ report[2] \subseteq {STATE_FLAG_OUTDATED}

(* A running container whose detail says Restarting, with the sentinel
   start time and an exit code of the set: RUNNING, and only OUTDATED. *)
C30_Witness ==
    /\ ContainerStateDone
    /\ call.self.detail # NOT_FOUND
    /\ LET state == call.self.detail.State
       IN /\ state.Running /\ state.Restarting
          /\ state.StartedAt = INITIAL_START_TIME
          /\ state.ExitCode \in call.self.options.nonrecoverable_exit_codes
    /\ result = <<STATE_RUNNING, {STATE_FLAG_OUTDATED}, <<>>>>

(* A stopped container that restarts after a non-recoverable exit, and a
   present network that is selected for an update. *)
C30_WitnessPresent ==
    \/ /\ ContainerStateDone
       /\ result = <<STATE_PRESENT, {STATE_FLAG_NONRECOVERABLE, STATE_FLAG_RESTARTING}, <<>>>>
    \/ /\ NetworkStateDone
       /\ result = <<STATE_PRESENT, {STATE_FLAG_OUTDATED}, <<>>>>

(* --------------------- claims on the extended map ---------------------- *)
SourceChanged ==
    pc = "done" /\ call.op \in {"update_default_from_dict", "merge_default_from_dict"}

(* The units of the extended map the caller holds, as they read now. *)
ExtendedUnits ==
    [k \in DOMAIN result.refs |->
        <<result.refs[k][1], Deref(container_maps["m"], result.refs[k][2])>>]

(* C27: after an update or a merge of a unit of the source map, every
   unit of an extended map that was returned before reads as it did when
   the map was returned. *)
C27_ExtendedMapIsSnapshot ==
    SourceChanged => ExtendedUnits = result.returned.containers

(* -------------------- claims on the keyword arguments ------------------ *)
UpdateKwargsDone == pc = "done" /\ call.op = "update_kwargs"

(* The merge by kind of value: an existing list is extended by a list or
   tuple, an existing dictionary is updated key-wise, and every other
   value is set as dict.update would set it. *)
MergedByKind(kw_item, u_item) ==
    IF kw_item.kind = "list" /\ u_item.kind \in {"list", "tuple"}
    THEN PyValue("list", kw_item.v \o u_item.v)
    ELSE IF kw_item.kind = "dict" /\ u_item.kind = "dict"
    THEN PyValue("dict", DictUpdate(kw_item.v, u_item.v))
    ELSE u_item

RECURSIVE MergedItems(_, _)
MergedItems(kwargs, u_dict) ==
    IF u_dict = <<>> THEN kwargs
    ELSE MergedItems(DictSet(kwargs, u_dict[1][1],
                             MergedByKind(DictGet(kwargs, u_dict[1][1]), u_dict[1][2])),
                     Tail(u_dict))

RECURSIVE MergedUpdates(_, _)
MergedUpdates(kwargs, updates) ==
    IF updates = <<>> THEN kwargs
    ELSE MergedUpdates(MergedItems(kwargs, updates[1]), Tail(updates))

(* C28: update_kwargs leaves in kwargs the merge by kind of every value
   that the updates supply, and raises nothing. *)
C28_MergedByKindForEveryValue ==
    UpdateKwargsDone =>
        /\ result.exc = "none"
        /\ result.kwargs = MergedUpdates(call.kwargs, call.updates)

(* ------------------------- claims on the clients ----------------------- *)
GenerateDone == pc = "done" /\ call.op = "generate_config_states"

(* The clients of the unit: its own list, else the list of the map, else
   the default client. *)
ClientsOf(unit) ==
    LET own == (CHOOSE kv \in Range(container_maps["m"].containers) : kv[1] = unit)[2].clients
    IN IF own # <<>> THEN own
       ELSE IF container_maps["m"].clients # <<>> THEN container_maps["m"].clients
       ELSE <<get_default_client_name>>

(* C22: the reports for a container address of a configured unit whose
   clients the policy knows are one per client of the unit, in the order
   of the list. *)
C22_OneReportPerClientInOrder ==
    (/\ GenerateDone
     /\ call.args[1] = ITEM_TYPE_CONTAINER
     /\ call.args[3] = "web"
     /\ Range(ClientsOf("web")) \subseteq policy._clients) =>
        /\ result.exc = "none"
        /\ [k \in DOMAIN result.yielded |-> result.yielded[k].client_name] = ClientsOf("web")
====
